---- MODULE Spec2Model ----
(***************************************************************************)
(* A model of the data aggregators (MSCL, XRF, XYZ) and of the CoreID      *)
(* renamer.  Text (folder names, file names, part tokens, section keys) is *)
(* a sequence of one-character strings, so that lower(), split(), float(), *)
(* int() and str() are computed and not assumed.  Column names and core    *)
(* names are only ever compared for equality and are plain strings.        *)
(***************************************************************************)
EXTENDS Integers, Sequences, FiniteSets, TLC

VARIABLES
    agg,            \* which aggregator runs: "mscl", "xrf" or "xyz"
    options,        \* the run's switches: sitehole (XRF), filter (XYZ) and its rules
    pc,             \* position of the run
    fs,             \* the input directory: its entries in iterdir() order
    todo,           \* record units discovered and not yet merged
    column_order,   \* ColumnOrder
    combined_df,    \* CombinedTable: rows, each a function column -> cell
    reads,          \* files opened for merging
    exported,       \* export files written
    status,         \* "running", "ok", "fatal" (exit(1)) or "crash" (uncaught exception)
    errors,         \* fatal messages printed
    warnings,       \* warnings printed
    prev_order,     \* history: ColumnOrder before the last merge step
    last_cols,      \* history: columns of the table folded in by the last merge step
    accepted,       \* history: the folders whose files discovery handed to the merge
    merged_order    \* history: ColumnOrder as the merge loop left it

aggvars == <<agg, options, pc, fs, todo, column_order, combined_df, reads, exported,
             status, errors, warnings, prev_order, last_cols, accepted, merged_order>>

VARIABLES
    rpc,                    \* position of the renamer run
    kwargs,                 \* section_column / depth_column overrides
    mscl_data,              \* rows of the input file (header, units, data...)
    core_rows,              \* rows of the core list file: <<number text, name>>
    section_column,
    section_depth_column,
    section_list,           \* [num, name, key] per core list entry
    sectionDict,            \* key -> core name
    matched_data,
    unmatched_data,
    named_set,
    unused_report,          \* the names printed as not used
    outputs,                \* the files written
    rstatus                 \* "running", "ok", "fatal" (exit(1)) or "crash"

renvars == <<rpc, kwargs, mscl_data, core_rows, section_column, section_depth_column,
             section_list, sectionDict, matched_data, unmatched_data, named_set,
             unused_report, outputs, rstatus>>

VARIABLES
    out_filename,           \* the output filename an aggregator is called with
    excel,                  \* the aggregator's excel flag
    export_filename,        \* validate_export_filename's result
    input_file,             \* the renamer's input filename
    matched_filename,
    unmatched_filename

namevars == <<out_filename, excel, export_filename, input_file, matched_filename,
              unmatched_filename>>

vars == <<aggvars, renvars, namevars>>

----------------------------------------------------------------------------
(* Text                                                                    *)

Ascii == <<" ", "-", ".", "0", "1", "2", "3", "4", "5", "6", "7", "8", "9",
           "A", "B", "C", "L", "M", "P", "S", "_",
           "a", "b", "c", "l", "m", "n", "o", "p", "r", "s", "t", "u", "w", "x">>

Ord(c) == CHOOSE i \in 1..Len(Ascii) : Ascii[i] = c

Digits == {"0", "1", "2", "3", "4", "5", "6", "7", "8", "9"}

DigitVal(c) == Ord(c) - Ord("0")

Min(a, b) == IF a < b THEN a ELSE b

Max(a, b) == IF a < b THEN b ELSE a

\* str.lower()
LowerChar(c) ==
    CASE c = "A" -> "a" [] c = "B" -> "b"
      [] c = "C" -> "c" [] c = "L" -> "l" [] c = "M" -> "m"
      [] c = "P" -> "p" [] c = "S" -> "s" [] OTHER -> c

Lower(s) == [i \in 1..Len(s) |-> LowerChar(s[i])]

StartsWith(s, pre) == Len(s) >= Len(pre) /\ SubSeq(s, 1, Len(pre)) = pre

MatchAt(sub, s, i) == i + Len(sub) <= Len(s) /\ SubSeq(s, i + 1, i + Len(sub)) = sub

\* sub in s
Contains(sub, s) == \E i \in 0..Len(s) : MatchAt(sub, s, i)

\* s.split(sep)[-1]: split scans left to right
RECURSIVE SplitLast(_, _)
SplitLast(s, sep) ==
    IF ~Contains(sep, s) THEN s
    ELSE LET i == CHOOSE k \in 0..Len(s) :
                     MatchAt(sep, s, k) /\ \A j \in 0..(k - 1) : ~MatchAt(sep, s, j)
         IN SplitLast(SubSeq(s, i + Len(sep) + 1, Len(s)), sep)

\* str.find(sep): the offset of the first occurrence of sep in s, -1 without one
FindFirst(s, sep) ==
    LET at == {i \in 0..Len(s) : MatchAt(sep, s, i)}
    IN IF at = {} THEN -1 ELSE CHOOSE i \in at : \A j \in at : i <= j

\* str.split(sep)
RECURSIVE Split(_, _)
Split(s, sep) ==
    LET i == FindFirst(s, sep)
    IN IF i = -1 THEN <<s>>
       ELSE <<SubSeq(s, 1, i)>> \o Split(SubSeq(s, i + Len(sep) + 1, Len(s)), sep)

\* a < b on str
StrLess(a, b) ==
    \E i \in 1..(Min(Len(a), Len(b)) + 1) :
        /\ SubSeq(a, 1, i - 1) = SubSeq(b, 1, i - 1)
        /\ \/ i > Len(a) /\ i <= Len(b)
           \/ i <= Len(a) /\ i <= Len(b) /\ Ord(a[i]) < Ord(b[i])

RECURSIVE DigitsVal(_)
DigitsVal(ds) ==
    IF ds = <<>> THEN 0
    ELSE 10 * DigitsVal(SubSeq(ds, 1, Len(ds) - 1)) + DigitVal(ds[Len(ds)])

RECURSIVE Pow10(_)
Pow10(n) == IF n = 0 THEN 1 ELSE 10 * Pow10(n - 1)

IsDigit(c) == c \in Digits

\* float(tok): digits with at most one point; anything else raises ValueError.
\* The value is num / den.
ParseFloat(tok) ==
    LET dots == {i \in 1..Len(tok) : tok[i] = "."}
        ds   == SelectSeq(tok, IsDigit)
        ok   == /\ \A i \in 1..Len(tok) : tok[i] \in Digits \cup {"."}
                /\ Cardinality(dots) <= 1
                /\ ds # <<>>
        frac == IF dots = {} THEN 0 ELSE Len(tok) - (CHOOSE i \in dots : TRUE)
    IN IF ok THEN [ok |-> TRUE, num |-> DigitsVal(ds), den |-> Pow10(frac)]
       ELSE [ok |-> FALSE, num |-> 0, den |-> 1]

FloatLess(a, b) == a.num * b.den < b.num * a.den

FloatEq(a, b) == a.num * b.den = b.num * a.den

\* int(tok): digits only; anything else raises ValueError
ParseInt(tok) ==
    IF tok # <<>> /\ \A i \in 1..Len(tok) : tok[i] \in Digits
    THEN [ok |-> TRUE, val |-> DigitsVal(tok)]
    ELSE [ok |-> FALSE, val |-> 0]

\* str(n) for n >= 0
RECURSIVE IntStr(_)
IntStr(n) ==
    IF n < 10 THEN <<Ascii[Ord("0") + n]>>
    ELSE IntStr(n \div 10) \o <<Ascii[Ord("0") + (n % 10)]>>

\* sorted(s, key=...): stable; lt[i][j] says that the key of s[i] is less than
\* the key of s[j]
StableSort(s, lt) ==
    LET n == Len(s)
        rank == [i \in 1..n |->
                    1 + Cardinality({j \in 1..n : lt[j][i] \/ (~lt[i][j] /\ j < i)})]
    IN [k \in 1..n |-> s[CHOOSE i \in 1..n : rank[i] = k]]

\* pathlib's PurePath.suffix
Suffix(name) ==
    LET dots == {i \in 1..Len(name) : name[i] = "."}
        last == IF dots = {} THEN 0 ELSE CHOOSE i \in dots : \A j \in dots : j <= i
    IN IF last > 1 /\ last < Len(name) THEN SubSeq(name, last, Len(name)) ELSE <<>>

\* list[lo:hi] bounds: a negative index counts from the end, both are clamped
SliceIndex(i, n) == IF i < 0 THEN Max(i + n, 0) ELSE Min(i, n)

\* s[lo:hi]
PySlice(s, lo, hi) == SubSeq(s, SliceIndex(lo, Len(s)) + 1, SliceIndex(hi, Len(s)))

\* s[lo:hi] = new
PySliceAssign(s, lo, hi, new) ==
    LET l == SliceIndex(lo, Len(s))
        h == Max(l, SliceIndex(hi, Len(s)))
    IN SubSeq(s, 1, l) \o new \o SubSeq(s, h + 1, Len(s))

Range(s) == {s[i] : i \in 1..Len(s)}

NoDup(s) == \A i, j \in 1..Len(s) : s[i] = s[j] => i = j

\* list.remove(x): the first occurrence
RemoveFirst(s, x) ==
    IF x \notin Range(s) THEN s
    ELSE LET i == CHOOSE k \in 1..Len(s) : s[k] = x /\ \A j \in 1..(k - 1) : s[j] # x
         IN SubSeq(s, 1, i - 1) \o SubSeq(s, i + 1, Len(s))

----------------------------------------------------------------------------
(* MSCL: file-set discovery (generate_file_list)                           *)

Separator == <<"-", "p">>

TypeTag == <<"m", "s", "c", "l">>

DotOut == <<".", "o", "u", "t">>

DotRaw == <<".", "r", "a", "w">>

DotCsv == <<".", "c", "s", "v">>

DotXlsx == <<".", "x", "l", "s", "x">>

DotXls == <<".", "x", "l", "s">>

MsclDirFilter(entry) ==
    /\ Contains(TypeTag, Lower(entry.name))
    /\ Contains(Separator, Lower(entry.name))
    /\ entry.is_dir
    /\ ~StartsWith(entry.name, <<".">>)

\* key=lambda d: float(d.name.split(separator)[-1])
DirKey(d) == ParseFloat(SplitLast(d.name, Separator))

MsclFileFilter(entry) ==
    /\ ~StartsWith(entry.name, <<".">>)
    /\ entry.is_file
    /\ Suffix(entry.name) \in {DotOut, DotRaw}

\* key=lambda f: f.name.split(".")[-1]
FileKey(f) == SplitLast(f.name, <<".">>)

SortDirs(dir_list) ==
    LET keys == [i \in 1..Len(dir_list) |-> DirKey(dir_list[i])]
    IN StableSort(dir_list, [i \in 1..Len(dir_list) |->
                               [j \in 1..Len(dir_list) |-> FloatLess(keys[i], keys[j])]])

FList(d) ==
    LET f_list == SelectSeq(d.files, MsclFileFilter)
        keys   == [i \in 1..Len(f_list) |-> FileKey(f_list[i])]
    IN StableSort(f_list, [i \in 1..Len(f_list) |->
                             [j \in 1..Len(f_list) |-> StrLess(keys[i], keys[j])]])

\* generate_file_list had it warned about a folder with the wrong file count
\* and gone on, as the XYZ discovery does for a folder without its file
GenerateFileListSkipping(listing) ==
    LET sorted == SortDirs(SelectSeq(listing, MsclDirFilter))
        good   == SelectSeq(sorted, LAMBDA d : Len(FList(d)) = 2)
    IN [outcome |-> "ok",
        file_list |-> [i \in 1..Len(good) |-> [dir |-> good[i].name, files |-> FList(good[i])]],
        folder |-> <<>>, found |-> 0]

\* The outcome of generate_file_list: "ok" with the list of pairs, "exit" with
\* the folder named in the message, or "ValueError" when a sort key does not parse.
GenerateFileList(listing) ==
    LET dir_list == SelectSeq(listing, MsclDirFilter)
        none == [outcome |-> "ValueError", file_list |-> <<>>, folder |-> <<>>, found |-> 0]
    IN IF \E i \in 1..Len(dir_list) : ~DirKey(dir_list[i]).ok THEN none
       ELSE LET sorted == SortDirs(dir_list)
                lists  == [i \in 1..Len(sorted) |-> FList(sorted[i])]
                bad    == {i \in 1..Len(sorted) : Len(lists[i]) # 2}
            IN IF bad # {}
               THEN LET i == CHOOSE k \in bad : \A j \in bad : k <= j
                    IN [outcome |-> "exit", file_list |-> <<>>,
                        folder |-> sorted[i].name, found |-> Len(lists[i])]
               ELSE [outcome |-> "ok",
                     file_list |-> [i \in 1..Len(sorted) |->
                                      [dir |-> sorted[i].name, files |-> lists[i]]],
                     folder |-> <<>>, found |-> 0]

----------------------------------------------------------------------------
(* File reader / cleaner                                                   *)

NaN == "NaN"

AllEmpty(row) == \A i \in 1..Len(row) : row[i] = ""

NotAllEmpty(row) == ~AllEmpty(row)

\* df.drop(drop_rows); df[~df.eq("").all(1)]; df.reset_index(drop=True).
\* drop() raises KeyError for a label the frame does not have.
OpenAndCleanFile(table, drop_rows) ==
    IF \E l \in drop_rows : l >= Len(table.rows)
    THEN [ok |-> FALSE, cols |-> table.cols, rows |-> <<>>]
    ELSE LET kept    == {i \in 1..Len(table.rows) : (i - 1) \notin drop_rows}
             n       == Cardinality(kept)
             Nth(k)  == CHOOSE i \in kept : Cardinality({j \in kept : j < i}) = k - 1
             dropped == [k \in 1..n |-> table.rows[Nth(k)]]
         IN [ok |-> TRUE, cols |-> table.cols, rows |-> SelectSeq(dropped, NotAllEmpty)]

ColIndex(cols, c) == CHOOSE i \in 1..Len(cols) : cols[i] = c

\* out_df["Temp"] = raw_df["Temp"]: aligned on the row index; an index of
\* out_df that raw_df lacks gets NaN, surplus rows of raw_df are left out.
\* The result's rows are functions column -> cell.
AssignTemp(out_df, raw_df) ==
    LET cols == IF "Temp" \in Range(out_df.cols) THEN out_df.cols
                ELSE Append(out_df.cols, "Temp")
        t    == ColIndex(raw_df.cols, "Temp")
    IN [cols |-> cols,
        rows |-> [i \in 1..Len(out_df.rows) |->
                    [c \in Range(cols) |->
                        IF c = "Temp"
                        THEN (IF i <= Len(raw_df.rows) THEN raw_df.rows[i][t] ELSE NaN)
                        ELSE out_df.rows[i][ColIndex(out_df.cols, c)]]]]

\* the rows had only the first row of a frame been taken
AsRowsFirstOnly(df) ==
    [i \in 1..(IF df.rows = <<>> THEN 0 ELSE 1) |->
        [c \in Range(df.cols) |-> df.rows[i][ColIndex(df.cols, c)]]]

\* a frame's rows as functions column -> cell
AsRows(df) ==
    [i \in 1..Len(df.rows) |-> [c \in Range(df.cols) |-> df.rows[i][ColIndex(df.cols, c)]]]

----------------------------------------------------------------------------
(* Merge engine: the ColumnOrder step of each aggregator                   *)

\* the new columns had the test against ColumnOrder been left out
NewColumnsUnfiltered(cols, order) == cols

\* [c for c in df.columns if c not in column_order]
NewColumns(cols, order) == SelectSeq(cols, LAMBDA c : c \notin Range(order))

\* column_order[-1:-1] = new_columns
MsclInsert(order, new_columns) == PySliceAssign(order, -1, -1, new_columns)

\* the XRF insertion had it kept one trailing column, as the MSCL one does
XrfInsertBeforeLast(order, new_elements) == PySliceAssign(order, -1, -1, new_elements)

\* column_order[:-2] + new_elements + column_order[-2:]
XrfInsert(order, new_elements) ==
    PySlice(order, 0, -2) \o new_elements \o PySlice(order, -2, Len(order))

\* for c in new_columns: column_order.append(c)
XyzInsert(order, new_columns) == order \o new_columns

MergeColumns(a, order, cols) ==
    IF order = <<>> THEN cols
    ELSE LET new == NewColumns(cols, order)
         IN IF new = <<>> THEN order
            ELSE CASE a = "mscl" -> MsclInsert(order, new)
                   [] a = "xrf"  -> XrfInsert(order, new)
                   [] a = "xyz"  -> XyzInsert(order, new)

----------------------------------------------------------------------------
(* Schema registry and renaming (clean_headers_add_units)                  *)

\* machine header, readable header, units
HeadersAndUnitsMscl ==
    << <<"SECT NUM", "SectionID", "">>,
       <<"SECT DEPTH", "Section Depth", "cm">>,
       <<"CT", "Sediment Thickness", "cm">>,
       <<"PWAmp", "pWave Amplitude", "">>,
       <<"PWVel", "pWave Velocity", "m/s">>,
       <<"Den1", "Gamma Density", "g/cm3">>,
       <<"MS1", "MS Loop", "SI x 10^-5">>,
       <<"Imp", "Impedance", "">>,
       <<"FP", "Fractional Porosity", "">>,
       <<"NGAM", "Natural Gamma Radiation", "CPS">>,
       <<"RES", "Electrical Resistivity", "Ohm-m">>,
       <<"Temp", "Temperature in Logging Room", "degC">> >>

\* the twelve listed entries, and of the wavelengths 370..740 the first and the last
HeadersAndUnitsXyz ==
    << <<"Section", "Section", "">>,
       <<"Section Depth", "Section Depth", "cm">>,
       <<"Laser Profiler", "Laser Profiler", "mm">>,
       <<"Magnetic Susceptibility", "Magnetic Susceptibility", "SI x 10^-5">>,
       <<"Greyscale Reflectance", "Greyscale Reflectance", "">>,
       <<"CIE XYZ Colour Space", "CIE X", "">>,
       <<"Y", "CIE Y", "">>,
       <<"Z", "CIE Z", "">>,
       <<"CIE L*a*b* Colour Space", "CIE L*", "">>,
       <<"a*", "CIE a*", "">>,
       <<"b*", "CIE b*", "">>,
       <<"Reflectance (nm)", "360", "nm">>,
       <<"370", "370", "nm">>,
       <<"740", "740", "nm">> >>

DropHeadersMscl == <<"SB DEPTH">>

DropHeadersXyz == <<"Depth", "Core Depth", "Munsell Colour", "Time Stamp">>

Registry(a) == IF a = "mscl" THEN HeadersAndUnitsMscl ELSE HeadersAndUnitsXyz

DropHeaders(a) == IF a = "mscl" THEN DropHeadersMscl ELSE DropHeadersXyz

Registered(a) == {Registry(a)[i][1] : i \in 1..Len(Registry(a))}

RegEntry(a, h) == Registry(a)[CHOOSE i \in 1..Len(Registry(a)) : Registry(a)[i][1] = h]

\* for dh in drop_headers: if dh in column_order: column_order.remove(dh)
RECURSIVE RemoveAll(_, _)
RemoveAll(order, drop_headers) ==
    IF drop_headers = <<>> THEN order
    ELSE RemoveAll(RemoveFirst(order, Head(drop_headers)), Tail(drop_headers))

\* MSCL adds the fallback entries while it warns; XYZ only warns
FallbackAdded(a) == a = "mscl"

\* The outcome of clean_headers_add_units on (dataframe rows, column_order).
CleanHeadersAddUnits(a, rows, order, drop_headers) ==
    LET kept     == RemoveAll(order, drop_headers)
        IsFirstUnknown(i) ==
            /\ kept[i] \notin Registered(a)
            /\ (FallbackAdded(a) => \A j \in 1..(i - 1) : kept[j] # kept[i])
        unk      == {i \in 1..Len(kept) : IsFirstUnknown(i)}
        NthUnk(k) == CHOOSE i \in unk : Cardinality({j \in unk : j < i}) = k - 1
        warns    == [k \in 1..(2 * Cardinality(unk)) |->
                       [kind   |-> IF k % 2 = 1 THEN "units" ELSE "header",
                        header |-> kept[NthUnk((k + 1) \div 2)]]]
        fallback == IF FallbackAdded(a) THEN Range(kept) \ Registered(a) ELSE {}
        keys     == Registered(a) \cup fallback
        Units(h)     == IF h \in Registered(a) THEN RegEntry(a, h)[3] ELSE ""
        NewHeader(h) == IF h \in Registered(a) THEN RegEntry(a, h)[2] ELSE h
        units_row == [h \in keys |-> Units(h)]
        Rename(row) == [n \in {NewHeader(c) : c \in DOMAIN row} |->
                          row[CHOOSE c \in DOMAIN row : NewHeader(c) = n]]
        frame    == <<units_row>> \o rows
    IN [ok       |-> \A i \in 1..Len(kept) : kept[i] \in keys,   \* else KeyError
        warnings |-> warns,
        machine  |-> kept,
        units    |-> units_row,
        rows     |-> [i \in 1..Len(frame) |-> Rename(frame[i])],
        column_order |-> [i \in 1..Len(kept) |-> NewHeader(kept[i])]]

\* combined_df[column_order] as written to the export file
ExportTable(rows, order) ==
    [header |-> order,
     rows   |-> [i \in 1..Len(rows) |->
                   [k \in 1..Len(order) |->
                      IF order[k] \in DOMAIN rows[i] THEN rows[i][order[k]] ELSE NaN]]]

\* filters = [["Magnetic Susceptibility", "<", -50]]
XyzFilters == << <<"Magnetic Susceptibility", "<", [num |-> 0 - 50, den |-> 1]>> >>

\* the switches of a run called without --sitehole and without --filter
NoOptions == [sitehole |-> FALSE, filter |-> FALSE, filters |-> XyzFilters]

----------------------------------------------------------------------------
(* Export filename (validate_export_filename)                              *)

\* PurePath.with_suffix: ValueError (ok FALSE) for a path with an empty name
WithSuffix(name, suffix) ==
    IF name = <<>> THEN [ok |-> FALSE, name |-> name]
    ELSE [ok |-> TRUE,
          name |-> SubSeq(name, 1, Len(name) - Len(Suffix(name))) \o suffix]

\* validate_export_filename of the three aggregators, on a pathlib path
ValidateExportFilename(filename, excel_flag) ==
    IF excel_flag
    THEN IF Suffix(filename) \notin {DotXlsx, DotXls}
         THEN WithSuffix(filename, DotXlsx)
         ELSE [ok |-> TRUE, name |-> filename]
    ELSE IF Suffix(filename) # DotCsv
         THEN WithSuffix(filename, DotCsv)
         ELSE [ok |-> TRUE, name |-> filename]

\* validate_export_filename of utils.py, on a str
UtilsValidateExportFilename(filename, excel_flag) ==
    LET extension == SplitLast(filename, <<".">>)
    IN IF excel_flag
       THEN IF extension \notin {Tail(DotXlsx), Tail(DotXls)}
            THEN filename \o DotXlsx
            ELSE filename
       ELSE IF extension # Tail(DotCsv)
            THEN filename \o DotCsv
            ELSE filename

----------------------------------------------------------------------------
(* The aggregators' steps                                                  *)

RenamerIdle ==
    /\ rpc = "idle"
    /\ kwargs = [section_column |-> -1, depth_column |-> -1, output_filename |-> <<>>]
    /\ mscl_data = <<>>
    /\ core_rows = <<>>
    /\ section_column = -1
    /\ section_depth_column = -1
    /\ section_list = <<>>
    /\ sectionDict = <<>>
    /\ matched_data = <<>>
    /\ unmatched_data = <<>>
    /\ named_set = {}
    /\ unused_report = {}
    /\ outputs = <<>>
    /\ rstatus = "idle"
    /\ input_file = <<>> /\ matched_filename = <<>> /\ unmatched_filename = <<>>

\* the name an aggregator exports to, here one that validation leaves as it is
T_OutCsv == <<"o">> \o DotCsv

\* aggregate_*_data after out_filename was validated
FilenameValidated ==
    /\ out_filename = T_OutCsv /\ excel = FALSE /\ export_filename = T_OutCsv

\* the first step of aggregate_*_data: export_filename = validate_export_filename(...)
Validate ==
    /\ agg \in {"mscl", "xrf", "xyz"} /\ pc = "start"
    /\ LET r == ValidateExportFilename(out_filename, excel)
       IN IF r.ok
          THEN /\ export_filename' = r.name
               /\ pc' = "discover"
               /\ UNCHANGED status
          ELSE /\ pc' = "done" /\ status' = "crash"         \* ValueError
               /\ UNCHANGED export_filename
    /\ UNCHANGED <<agg, options, fs, todo, column_order, combined_df, reads, exported,
                   errors, warnings, prev_order, last_cols, accepted, merged_order,
                   out_filename, excel, input_file, matched_filename, unmatched_filename,
                   renvars>>

\* a call of utils.validate_export_filename
UtilsValidate ==
    /\ agg = "utils" /\ pc = "start"
    /\ export_filename' = UtilsValidateExportFilename(out_filename, excel)
    /\ pc' = "done"
    /\ UNCHANGED <<agg, options, fs, todo, column_order, combined_df, reads, exported,
                   status, errors, warnings, prev_order, last_cols, accepted, merged_order,
                   out_filename, excel, input_file, matched_filename, unmatched_filename,
                   renvars>>

Path(dir, f) == [dir |-> dir, name |-> f.name]

\* aggregate_mscl_data up to the merge loop: generate_file_list, then exit(1),
\* an uncaught ValueError, or the loop over the pairs
MsclDiscover ==
    /\ agg = "mscl" /\ pc = "discover"
    /\ \E r \in {GenerateFileList(fs)} :
          /\ todo' = r.file_list
          /\ accepted' = r.file_list
          /\ pc' = IF r.outcome = "ok" THEN "merge" ELSE "done"
          /\ status' = CASE r.outcome = "ok" -> "running"
                         [] r.outcome = "exit" -> "fatal"
                         [] OTHER -> "crash"
          /\ errors' = IF r.outcome = "exit"
                       THEN Append(errors, [kind   |-> IF r.found > 2 THEN "more" ELSE "less",
                                            folder |-> r.folder])
                       ELSE errors
    /\ UNCHANGED <<agg, options, fs, column_order, combined_df, reads, exported, warnings,
                   prev_order, last_cols, merged_order, renvars, namevars>>

\* one iteration of the MSCL loop: read both files, join Temp, merge, append
MsclLoadUnit ==
    /\ agg = "mscl" /\ pc = "merge" /\ todo # <<>>
    /\ LET unit   == Head(todo)
           out    == unit.files[1]
           raw    == unit.files[2]
           out_df == OpenAndCleanFile(out.table, {0})
           raw_df == OpenAndCleanFile(raw.table, {0, 1})
           fine   == out_df.ok /\ raw_df.ok /\ "Temp" \in Range(raw_df.cols)
           joined == AssignTemp(out_df, raw_df)
       IN /\ reads' = reads \cup {Path(unit.dir, out), Path(unit.dir, raw)}
          /\ IF fine
             THEN /\ column_order' = MergeColumns("mscl", column_order, joined.cols)
                  /\ combined_df' = combined_df \o joined.rows
                  /\ prev_order' = column_order
                  /\ last_cols' = joined.cols
                  /\ todo' = Tail(todo)
                  /\ UNCHANGED <<pc, status>>
             ELSE /\ pc' = "done" /\ status' = "crash"      \* KeyError
                  /\ UNCHANGED <<column_order, combined_df, prev_order, last_cols, todo>>
    /\ UNCHANGED <<agg, options, fs, exported, errors, warnings, accepted, merged_order, renvars, namevars>>

\* one iteration of the XRF loop: read the sheet, merge, append
XrfLoadUnit ==
    /\ agg = "xrf" /\ pc = "merge" /\ todo # <<>>
    /\ LET unit == Head(todo)
           df   == unit.files[1].table
       IN /\ reads' = reads \cup {Path(unit.dir, unit.files[1])}
          /\ column_order' = MergeColumns("xrf", column_order, df.cols)
          /\ combined_df' = combined_df \o AsRows(df)
          /\ prev_order' = column_order
          /\ last_cols' = df.cols
          /\ todo' = Tail(todo)
    /\ UNCHANGED <<agg, options, pc, fs, exported, status, errors, warnings, accepted,
                   merged_order, renvars, namevars>>

\* one iteration of the XYZ loop: read the file, merge, append
XyzLoadUnit ==
    /\ agg = "xyz" /\ pc = "merge" /\ todo # <<>>
    /\ LET unit == Head(todo)
           df   == unit.files[1].table
       IN /\ reads' = reads \cup {Path(unit.dir, unit.files[1])}
          /\ column_order' = MergeColumns("xyz", column_order, df.cols)
          /\ combined_df' = combined_df \o AsRows(df)
          /\ prev_order' = column_order
          /\ last_cols' = df.cols
          /\ todo' = Tail(todo)
    /\ UNCHANGED <<agg, options, pc, fs, exported, status, errors, warnings, accepted,
                   merged_order, renvars, namevars>>

\* after the loop: drop headers, warn, add the units row, rename
CleanHeaders ==
    /\ agg \in {"mscl", "xyz"}
    /\ \/ pc = "merge" /\ todo = <<>> /\ ~(agg = "xyz" /\ options.filter)
       \/ pc = "clean"
    /\ \E r \in {CleanHeadersAddUnits(agg, combined_df, column_order, DropHeaders(agg))} :
          /\ warnings' = warnings \o r.warnings
          /\ merged_order' = column_order
          /\ IF r.ok
             THEN /\ combined_df' = r.rows
                  /\ column_order' = r.column_order
                  /\ pc' = "export"
                  /\ UNCHANGED status
             ELSE /\ pc' = "done" /\ status' = "crash"      \* KeyError
                  /\ UNCHANGED <<combined_df, column_order>>
    /\ UNCHANGED <<agg, options, fs, todo, reads, exported, errors, prev_order, last_cols,
                   accepted, renvars, namevars>>

\* to_csv / to_excel of combined_df[column_order]
Export ==
    /\ agg \in {"mscl", "xyz"} /\ pc = "export"
    /\ exported' = Append(exported, ExportTable(combined_df, column_order))
    /\ pc' = "done"
    /\ status' = "ok"
    /\ UNCHANGED <<agg, options, fs, todo, column_order, combined_df, reads, errors, warnings,
                   prev_order, last_cols, accepted, merged_order, renvars, namevars>>

----------------------------------------------------------------------------
(* MSCL runs over a bounded input directory                                *)

MaxFolders == 2

FolderP1 == <<"m", "s", "c", "l", "-", "p", "1">>

FolderP1dot0 == <<"m", "s", "c", "l", "-", "p", "1", ".", "0">>

FolderP2 == <<"m", "s", "c", "l", "-", "p", "2">>

FolderHidden == <<".", "m", "s", "c", "l", "-", "p", "3">>

FolderNames == {FolderP1, FolderP1dot0, FolderP2, FolderHidden}

FileAOut == <<"a", ".", "o", "u", "t">>

FileBOut == <<"b", ".", "o", "u", "t">>

FileARaw == <<"a", ".", "r", "a", "w">>

FileBRaw == <<"b", ".", "r", "a", "w">>

FileNotes == <<"n", ".", "t", "x", "t">>

\* the file lists a folder may hold, in iterdir() order
FileConfigs ==
    { <<FileAOut, FileARaw>>, <<FileARaw, FileAOut>>, <<FileAOut, FileBRaw>>,
      <<FileBOut, FileARaw>>, <<FileAOut, FileBOut>>, <<FileARaw, FileBRaw>>,
      <<FileAOut>>, <<FileAOut, FileARaw, FileBRaw>>, <<FileAOut, FileNotes, FileARaw>>,
      <<>> }

\* the columns of a folder's .out files
OutCols(dir) ==
    CASE dir = FolderP1     -> <<"SECT NUM", "SECT DEPTH", "MS1">>
      [] dir = FolderP1dot0 -> <<"SECT NUM", "SECT DEPTH", "Den1">>
      [] OTHER              -> <<"SECT NUM", "SB DEPTH", "XX">>

\* File "a" holds two data rows and file "b" one; row 0 is the units row, a
\* .raw file has its offset row next and "a.raw" ends in an empty row.
FileTable(dir, name) ==
    LET two == name[1] = "a"
        oc  == OutCols(dir)
        Row(v) == [i \in 1..Len(oc) |-> v]
    IN CASE Suffix(name) = DotOut ->
              [cols |-> oc,
               rows |-> <<Row("u"), Row("1")>> \o (IF two THEN <<Row("2")>> ELSE <<>>)]
         [] Suffix(name) = DotRaw ->
              [cols |-> <<"SECT NUM", "Temp">>,
               rows |-> << <<"u", "u">>, <<"0", "19">>, <<"1", "20">> >>
                        \o (IF two THEN << <<"2", "21">>, <<"", "">> >> ELSE <<>>)]
         [] OTHER -> [cols |-> <<>>, rows |-> <<>>]

Folder(dir, config) ==
    [name   |-> dir,
     is_dir |-> TRUE,
     files  |-> [i \in 1..Len(config) |->
                   [name |-> config[i], is_file |-> TRUE, table |-> FileTable(dir, config[i])]]]

Listings ==
    {s \in UNION {[1..n -> FolderNames] : n \in 0..MaxFolders} : NoDup(s)}

InitMscl ==
    /\ agg = "mscl" /\ pc = "discover"
    /\ options = NoOptions
    /\ \E names \in Listings : \E configs \in [1..Len(names) -> FileConfigs] :
           \* the hidden folder is given one file list only
           /\ \A i \in 1..Len(names) : names[i] = FolderHidden => configs[i] = <<FileAOut>>
           /\ fs = [i \in 1..Len(names) |-> Folder(names[i], configs[i])]
    /\ todo = <<>> /\ column_order = <<>> /\ combined_df = <<>>
    /\ reads = {} /\ exported = <<>> /\ status = "running"
    /\ errors = <<>> /\ warnings = <<>>
    /\ prev_order = <<>> /\ last_cols = <<>> /\ accepted = <<>> /\ merged_order = <<>>
    /\ FilenameValidated
    /\ RenamerIdle

NextMscl == MsclDiscover \/ MsclLoadUnit \/ CleanHeaders \/ Export

SpecMscl == InitMscl /\ [][NextMscl]_vars

----------------------------------------------------------------------------
(* Claims about MSCL runs (SpecMscl)                                       *)

\* the files of a folder that count: not hidden, .out or .raw
Matching(d, suffix) ==
    {i \in 1..Len(d.files) :
        /\ ~StartsWith(d.files[i].name, <<".">>)
        /\ Suffix(d.files[i].name) = suffix}

RecordUnitFolders == {i \in 1..Len(fs) : MsclDirFilter(fs[i])}

OneOfEach(d) ==
    Cardinality(Matching(d, DotOut)) = 1 /\ Cardinality(Matching(d, DotRaw)) = 1

WrongFileCount(d) ==
    Cardinality(Matching(d, DotOut)) + Cardinality(Matching(d, DotRaw)) # 2

FolderNamed(name) == fs[CHOOSE i \in 1..Len(fs) : fs[i].name = name]

\* the units folded into the combined table so far
MergedCount == Len(accepted) - Len(todo)

CleanOut(unit) == OpenAndCleanFile(unit.files[1].table, {0})

CleanRaw(unit) == OpenAndCleanFile(unit.files[2].table, {0, 1})

UnitCols(unit) == AssignTemp(CleanOut(unit), CleanRaw(unit)).cols

RECURSIVE FoldOrder(_, _)
FoldOrder(order, units) ==
    IF units = <<>> THEN order
    ELSE FoldOrder(MergeColumns("mscl", order, UnitCols(Head(units))), Tail(units))

ListingOrders ==
    {[i \in 1..Len(fs) |-> fs[p[i]]] : p \in Permutations(1..Len(fs))}

\* C3: for a fixed set of folders, the units merged and the merged ColumnOrder
\* are the same for every order in which the directory listing returns the
\* folders, also when two folders have equal sort keys.
C3_OrderDeterminism ==
    (pc = "merge" /\ todo = <<>>) =>
        \A listing \in ListingOrders :
            LET r == GenerateFileList(listing)
            IN /\ r.outcome = "ok"
               /\ r.file_list = accepted
               /\ FoldOrder(<<>>, r.file_list) = column_order

\* C4: discovery accepts a folder only if it holds exactly one .out and exactly
\* one .raw file, any other combination being fatal and naming the folder; an
\* accepted unit's pair is (the .out file, the .raw file).
C4_ExactlyOneOfEach ==
    pc # "discover" =>
        IF \A i \in RecordUnitFolders : OneOfEach(fs[i])
        THEN /\ status # "fatal"
             /\ {accepted[k].dir : k \in 1..Len(accepted)} =
                    {fs[i].name : i \in RecordUnitFolders}
             /\ \A k \in 1..Len(accepted) :
                    /\ Suffix(accepted[k].files[1].name) = DotOut
                    /\ Suffix(accepted[k].files[2].name) = DotRaw
        ELSE /\ status = "fatal"
             /\ accepted = <<>>
             /\ Len(errors) = 1
             /\ \E i \in RecordUnitFolders :
                    ~OneOfEach(fs[i]) /\ errors[1].folder = fs[i].name

\* a unit made of a .out file and a .raw file
OutRawPair(unit) ==
    Suffix(unit.files[1].name) = DotOut /\ Suffix(unit.files[2].name) = DotRaw

RowCountsEqual(unit) == Len(CleanOut(unit).rows) = Len(CleanRaw(unit).rows)

Mismatched(unit) == OutRawPair(unit) /\ ~RowCountsEqual(unit)

RECURSIVE RowOffset(_)
RowOffset(k) == IF k = 1 THEN 0 ELSE RowOffset(k - 1) + Len(CleanOut(accepted[k - 1]).rows)

\* C5: a unit whose cleaned .out and .raw tables differ in row count ends the
\* run with a fatal error and adds nothing to CombinedTable; with equal counts
\* row i of the .out table gets the Temp value of row i of the .raw table.
C5_RowCountMismatchFatal ==
    /\ \A k \in 1..MergedCount : ~Mismatched(accepted[k])
    /\ (pc = "done" /\ \E k \in 1..Len(accepted) : Mismatched(accepted[k]))
           => status = "fatal"
    /\ pc = "merge" =>
           \A k \in 1..MergedCount :
               (OutRawPair(accepted[k]) /\ RowCountsEqual(accepted[k])) =>
                   \A i \in 1..Len(CleanOut(accepted[k]).rows) :
                       combined_df[RowOffset(k) + i]["Temp"] =
                           CleanRaw(accepted[k]).rows[i][ColIndex(CleanRaw(accepted[k]).cols, "Temp")]

----------------------------------------------------------------------------
(* The merge step of the three aggregators (SpecMerge)                     *)

MaxUnits == 2

MaxCols == 3

MergeAlphabet == {"c1", "c2", "c3", "c4"}

FirstColumns == <<"c1", "c2", "c3", "c4">>

\* the column lists of a unit's table: no name twice
ColumnLists ==
    {s \in UNION {[1..n -> MergeAlphabet] : n \in 1..MaxCols} : NoDup(s)}

\* the text of the cells of data row r of unit k: no two rows alike
UnitCells ==
    << <<"11">>,
       <<"21", "22">>,
       <<"31", "32", "33">>,
       <<"41", "42", "43", "44">> >>

\* the k-th unit: its table has the columns cols and k data rows; an MSCL
\* unit is the .out file (units row first) and a .raw file of as many rows
MergeUnit(a, k, cols) ==
    LET dir   == <<"u">> \o IntStr(k)
        Row(v) == [i \in 1..Len(cols) |-> v]
        rows  == [r \in 1..k |-> Row(UnitCells[k][r])]
        data  == [name |-> <<"d">>, is_file |-> TRUE,
                  table |-> [cols |-> cols, rows |-> rows]]
        out   == [name |-> FileBOut, is_file |-> TRUE,
                  table |-> [cols |-> cols, rows |-> <<Row("u")>> \o rows]]
        raw   == [name |-> FileBRaw, is_file |-> TRUE,
                  table |-> [cols |-> <<"SECT NUM", "Temp">>,
                             rows |-> << <<"u", "u">>, <<"0", "19">> >>
                                      \o [r \in 1..k |-> <<UnitCells[k][r], "20">>]]]
    IN [dir |-> dir, files |-> IF a = "mscl" THEN <<out, raw>> ELSE <<data>>]

\* The first unit's columns are c1..cn: the merge step compares names for
\* equality only, so any other first unit is this one renamed.
InitMerge ==
    /\ agg \in {"mscl", "xrf", "xyz"}
    /\ options = NoOptions
    /\ pc = "merge"
    /\ fs = <<>>
    /\ \E n \in 1..MaxCols : \E m \in 0..(MaxUnits - 1) : \E later \in [1..m -> ColumnLists] :
           todo = <<MergeUnit(agg, 1, SubSeq(FirstColumns, 1, n))>>
                  \o [k \in 1..m |-> MergeUnit(agg, k + 1, later[k])]
    /\ column_order = <<>> /\ combined_df = <<>>
    /\ reads = {} /\ exported = <<>> /\ status = "running"
    /\ errors = <<>> /\ warnings = <<>>
    /\ prev_order = <<>> /\ last_cols = <<>> /\ accepted = <<>> /\ merged_order = <<>>
    /\ FilenameValidated
    /\ RenamerIdle

NextMerge == MsclLoadUnit \/ XrfLoadUnit \/ XyzLoadUnit

SpecMerge == InitMerge /\ [][NextMerge]_vars

\* the number of trailing columns each aggregator keeps last
TrailingK(a) == CASE a = "mscl" -> 1 [] a = "xrf" -> 2 [] a = "xyz" -> 0

\* the columns the last merged table brought that ColumnOrder did not have
Brought == SelectSeq(last_cols, LAMBDA c : c \notin Range(prev_order))

C2_SubsetUnchanged ==
    (prev_order # <<>> /\ Range(last_cols) \subseteq Range(prev_order)) =>
        column_order = prev_order

\* a step that folded a table of two known columns into a longer ColumnOrder
C2_Witness ==
    /\ Len(prev_order) = 3
    /\ Len(last_cols) = 2
    /\ Range(last_cols) \subseteq Range(prev_order)
    /\ todo = <<>>

----------------------------------------------------------------------------
(* The registry step on a merged table (SpecRegistry)                      *)

MaxHeaders == 3

RegistryAlphabet(a) ==
    IF a = "mscl" THEN {"SECT NUM", "MS1", "SB DEPTH", "XX", "Temp", "SectionID"}
    ELSE {"Section", "Magnetic Susceptibility", "Munsell Colour", "XX", "370"}

InitRegistry ==
    /\ agg \in {"mscl", "xyz"}
    /\ options = NoOptions
    /\ pc = "merge"
    /\ fs = <<>> /\ todo = <<>>
    /\ \E n \in 0..MaxHeaders : \E order \in [1..n -> RegistryAlphabet(agg)] :
           /\ NoDup(order)
           /\ column_order = order
           /\ combined_df = <<[c \in Range(order) |-> "1"], [c \in Range(order) |-> "2"]>>
    /\ reads = {} /\ exported = <<>> /\ status = "running"
    /\ errors = <<>> /\ warnings = <<>>
    /\ prev_order = <<>> /\ last_cols = <<>> /\ accepted = <<>> /\ merged_order = <<>>
    /\ FilenameValidated
    /\ RenamerIdle

NextRegistry == CleanHeaders \/ Export

SpecRegistry == InitRegistry /\ [][NextRegistry]_vars

\* the columns the registry step keeps and has no entry for
Unregistered ==
    {c \in Range(merged_order) : c \notin Range(DropHeaders(agg)) /\ c \notin Registered(agg)}

\* C6: for every column left in ColumnOrder without a registry entry the step
\* warns, uses the machine name as the header and "" as the unit, and the run
\* goes on to export; an unregistered column never ends the run.
C6_UnregisteredFallback ==
    pc # "merge" =>
        /\ status # "crash"
        /\ \A c \in Unregistered :
               /\ c \in Range(column_order)
               /\ combined_df[1][c] = ""
               /\ \E i \in 1..Len(warnings) : warnings[i].header = c
        /\ pc = "done" => (status = "ok" /\ Len(exported) = 1)

----------------------------------------------------------------------------
(* Renamer (apply_names)                                                   *)

header_row == 0

units_row == 1

start_row == 2

\* kwargs.get(...) is None when the option is not given
None == -1

\* row[i] of a Python list held as a sequence
At(row, i) == row[i + 1]

T_SECT_NUM == <<"S", "E", "C", "T", " ", "N", "U", "M">>

T_Section == <<"S", "e", "c", "t", "i", "o", "n">>

T_SectionID == <<"S", "e", "c", "t", "i", "o", "n", "I", "D">>

T_Section_Depth == <<"S", "e", "c", "t", "i", "o", "n", " ", "D", "e", "p", "t", "h">>

T_SECT_DEPTH == <<"S", "E", "C", "T", " ", "D", "E", "P", "T", "H">>

T_Part_Section == <<"P", "a", "r", "t", "_", "S", "e", "c", "t", "i", "o", "n">>

SectionSpellings == <<T_SECT_NUM, T_Section, T_SectionID>>

DepthSpellings == <<T_Section_Depth, T_SECT_DEPTH>>

\* list.index(x)
IndexOf(row, x) == (CHOOSE i \in 1..Len(row) : row[i] = x /\ \A j \in 1..(i - 1) : row[j] # x) - 1

\* "if key in kwargs and kwargs[key]" then the override, else the first spelling
\* of the list found in the header, else exit(1)
ResolveColumn(override, spellings, header) ==
    IF override # None /\ override # 0 THEN [ok |-> TRUE, col |-> override]
    ELSE LET found == {k \in 1..Len(spellings) : spellings[k] \in Range(header)}
         IN IF found = {} THEN [ok |-> FALSE, col |-> None]
            ELSE [ok |-> TRUE,
                  col |-> IndexOf(header, spellings[CHOOSE k \in found : \A j \in found : k <= j])]

\* the segment index had it been raised for a smaller number only
CoreSegmentStrict(nums, i) ==
    1 + Cardinality({j \in 2..i : nums[j] < nums[j - 1]})

\* num_sections when entry i (from 1) of the core list gets its key
RECURSIVE CoreSegment(_, _)
CoreSegment(nums, i) ==
    IF i = 1 THEN 1
    ELSE CoreSegment(nums, i - 1) + (IF nums[i] <= nums[i - 1] THEN 1 ELSE 0)

\* section_list with the key appended to every entry; int() of a number that
\* is not one raises ValueError
BuildSectionList(rows) ==
    LET parsed == [i \in 1..Len(rows) |-> ParseInt(rows[i][1])]
        nums   == [i \in 1..Len(rows) |-> parsed[i].val]
    IN [ok   |-> \A i \in 1..Len(rows) : parsed[i].ok,
        list |-> [i \in 1..Len(rows) |->
                    [num  |-> nums[i],
                     name |-> rows[i][2],
                     key  |-> IntStr(CoreSegment(nums, i)) \o <<"_">> \o IntStr(nums[i])]]]

\* {section[2]: section[1] for section in section_list}: a later entry
\* replaces an earlier one of the same key
BuildSectionDict(list) ==
    [k \in {list[i].key : i \in 1..Len(list)} |->
        list[CHOOSE i \in 1..Len(list) :
                 list[i].key = k /\ \A j \in 1..Len(list) : list[j].key = k => j <= i].name]

\* the test had the depth been left out of it
NewSegmentNoDepth(data, sc, dc, i) ==
    ParseInt(At(At(data, i), sc)).val < ParseInt(At(At(data, i - 1), sc)).val

\* does data row i (from 0, i > start_row) start a new segment
NewSegment(data, sc, dc, i) ==
    LET cur  == ParseInt(At(At(data, i), sc)).val
        prev == ParseInt(At(At(data, i - 1), sc)).val
    IN \/ cur < prev
       \/ /\ cur = prev
          /\ FloatLess(ParseFloat(At(At(data, i), dc)), ParseFloat(At(At(data, i - 1), dc)))

\* num_sections when data row i (from 0) gets its key
RECURSIVE RowSegment(_, _, _, _)
RowSegment(data, sc, dc, i) ==
    IF i <= start_row THEN 1
    ELSE RowSegment(data, sc, dc, i - 1) + (IF NewSegment(data, sc, dc, i) THEN 1 ELSE 0)

\* int() and float() of the cells the loop compares: ValueError when one fails.
\* The "&" of line 112 evaluates the depths whenever the number is not smaller.
RowsParse(data, sc, dc) ==
    \A i \in (start_row + 1)..(Len(data) - 1) :
        LET cur  == ParseInt(At(At(data, i), sc))
            prev == ParseInt(At(At(data, i - 1), sc))
        IN /\ cur.ok /\ prev.ok
           /\ cur.val >= prev.val =>
                  ParseFloat(At(At(data, i), dc)).ok /\ ParseFloat(At(At(data, i - 1), dc)).ok

\* mscl_data with the Part_Section field appended to every row
KeyRows(data, sc, dc) ==
    [i \in 1..Len(data) |->
        Append(data[i],
               CASE i - 1 = header_row -> T_Part_Section
                 [] i - 1 = units_row  -> <<>>
                 [] OTHER -> IntStr(RowSegment(data, sc, dc, i - 1)) \o <<"_">> \o At(data[i], sc))]

\* row[:-1]
DropLast(row) == SubSeq(row, 1, Len(row) - 1)

Last(row) == row[Len(row)]

\* the matched row had the key been left on it
MatchedRowKeyKept(row, sc, dict) == [row EXCEPT ![sc + 1] = dict[Last(row)]]

\* the matched row: the section number replaced by the core name, the key removed
MatchedRow(row, sc, dict) ==
    DropLast([row EXCEPT ![sc + 1] = dict[Last(row)]])

DataRows(data) == SubSeq(data, start_row + 1, Len(data))

IsMatched(row) == Last(row) \in DOMAIN sectionDict

IsUnmatched(row) == ~IsMatched(row)

\* the rows the report reads the used names from: matched_data[start_row:]
ReportRows(matched) == SubSeq(matched, start_row + 1, Len(matched))

\* the names printed as not used
UnusedNames(dict, named) ==
    LET values == {dict[k] : k \in DOMAIN dict}
    IN IF Cardinality(values) - Cardinality(named) > 0 THEN values \ named ELSE {}

RenResolve ==
    /\ rpc = "resolve"
    /\ \E s \in {ResolveColumn(kwargs.section_column, SectionSpellings, At(mscl_data, header_row))} :
       \E d \in {ResolveColumn(kwargs.depth_column, DepthSpellings, At(mscl_data, header_row))} :
          IF s.ok /\ d.ok
          THEN /\ section_column' = s.col
               /\ section_depth_column' = d.col
               /\ rpc' = "sections"
               /\ UNCHANGED rstatus
          ELSE /\ rpc' = "done" /\ rstatus' = "fatal"
               /\ UNCHANGED <<section_column, section_depth_column>>
    /\ UNCHANGED <<kwargs, mscl_data, core_rows, section_list, sectionDict, matched_data,
                   unmatched_data, named_set, unused_report, outputs, aggvars, namevars>>

RenBuildSections ==
    /\ rpc = "sections"
    /\ \E r \in {BuildSectionList(core_rows)} :
          IF r.ok
          THEN /\ section_list' = r.list
               /\ sectionDict' = BuildSectionDict(r.list)
               /\ rpc' = "keys"
               /\ UNCHANGED rstatus
          ELSE /\ rpc' = "done" /\ rstatus' = "crash"
               /\ UNCHANGED <<section_list, sectionDict>>
    /\ UNCHANGED <<kwargs, mscl_data, core_rows, section_column, section_depth_column,
                   matched_data, unmatched_data, named_set, unused_report, outputs, aggvars, namevars>>

RenKeyRows ==
    /\ rpc = "keys"
    /\ IF RowsParse(mscl_data, section_column, section_depth_column)
       THEN /\ mscl_data' = KeyRows(mscl_data, section_column, section_depth_column)
            /\ rpc' = "join"
            /\ UNCHANGED rstatus
       ELSE /\ rpc' = "done" /\ rstatus' = "crash"
            /\ UNCHANGED mscl_data
    /\ UNCHANGED <<kwargs, core_rows, section_column, section_depth_column, section_list,
                   sectionDict, matched_data, unmatched_data, named_set, unused_report,
                   outputs, aggvars, namevars>>

RenJoin ==
    /\ rpc = "join"
    /\ LET matched == SelectSeq(DataRows(mscl_data), IsMatched)
       IN matched_data' = [i \in 1..Len(matched) |->
                              MatchedRow(matched[i], section_column, sectionDict)]
    /\ unmatched_data' = SelectSeq(DataRows(mscl_data), IsUnmatched)
    \* row[section_column] = ... writes into the row of mscl_data itself
    /\ mscl_data' = [i \in 1..Len(mscl_data) |->
                        IF i > start_row /\ IsMatched(mscl_data[i])
                        THEN [mscl_data[i] EXCEPT ![section_column + 1] = sectionDict[Last(mscl_data[i])]]
                        ELSE mscl_data[i]]
    /\ rpc' = "export"
    /\ UNCHANGED <<kwargs, core_rows, section_column, section_depth_column,
                   section_list, sectionDict, named_set, unused_report, outputs, rstatus,
                   aggvars, namevars>>

T_Dot == <<".">>

T_unnamed == <<"u", "n", "n", "a", "m", "e", "d">>

T__unnamed == <<"_">> \o T_unnamed

T__coreID_csv == <<"_", "c", "o", "r", "e", "I", "D">> \o DotCsv

T__unmatched_csv == <<"_", "u", "n", "m", "a", "t", "c", "h", "e", "d">> \o DotCsv

\* s.replace(old, new): every occurrence, scanning from the left (old not empty)
RECURSIVE Replace(_, _, _)
Replace(s, old, new) ==
    LET i == FindFirst(s, old)
    IN IF i = -1 THEN s
       ELSE SubSeq(s, 1, i) \o new \o Replace(SubSeq(s, i + Len(old) + 1, Len(s)), old, new)

\* sep.join(parts)
RECURSIVE Join(_, _)
Join(parts, sep) ==
    IF parts = <<>> THEN <<>>
    ELSE IF Len(parts) = 1 THEN parts[1]
    ELSE parts[1] \o sep \o Join(Tail(parts), sep)

\* matched_filename: an output_filename that is None or '' counts as not given
MatchedFilename(kw, name) ==
    IF kw.output_filename # <<>> THEN kw.output_filename
    ELSE IF Contains(T_unnamed, name) THEN Replace(name, T__unnamed, <<>>)
         ELSE Split(name, T_Dot)[1] \o T__coreID_csv

\* unmatched_filename
UnmatchedFilename(name) == Join(DropLast(Split(name, T_Dot)), T_Dot) \o T__unmatched_csv

RenExport ==
    /\ rpc = "export"
    /\ matched_filename' = MatchedFilename(kwargs, input_file)
    /\ unmatched_filename' = UnmatchedFilename(input_file)
    /\ outputs' =
          <<[file |-> "matched",
             name |-> MatchedFilename(kwargs, input_file),
             rows |-> <<DropLast(At(mscl_data, header_row)), DropLast(At(mscl_data, units_row))>>
                      \o matched_data]>>
          \o (IF Len(unmatched_data) # 0
              THEN <<[file |-> "unmatched",
                      name |-> UnmatchedFilename(input_file),
                      rows |-> <<At(mscl_data, header_row), At(mscl_data, units_row)>>
                               \o unmatched_data]>>
              ELSE <<>>)
    /\ rpc' = "report"
    /\ UNCHANGED <<kwargs, mscl_data, core_rows, section_column, section_depth_column,
                   section_list, sectionDict, matched_data, unmatched_data, named_set,
                   unused_report, rstatus, aggvars, out_filename, excel, export_filename,
                   input_file>>

RenReport ==
    /\ rpc = "report"
    /\ \E named \in {{At(row, section_column) : row \in Range(ReportRows(matched_data))}} :
          /\ named_set' = named
          /\ unused_report' = UnusedNames(sectionDict, named)
    /\ rpc' = "done"
    /\ rstatus' = "ok"
    /\ UNCHANGED <<kwargs, mscl_data, core_rows, section_column, section_depth_column,
                   section_list, sectionDict, matched_data, unmatched_data, outputs, aggvars, namevars>>

NextRenamer ==
    RenResolve \/ RenBuildSections \/ RenKeyRows \/ RenJoin \/ RenExport \/ RenReport

AggregatorIdle ==
    /\ agg = "none" /\ pc = "idle"
    /\ options = NoOptions
    /\ fs = <<>> /\ todo = <<>> /\ column_order = <<>> /\ combined_df = <<>>
    /\ reads = {} /\ exported = <<>> /\ status = "idle"
    /\ errors = <<>> /\ warnings = <<>>
    /\ prev_order = <<>> /\ last_cols = <<>> /\ accepted = <<>> /\ merged_order = <<>>
    /\ out_filename = <<>> /\ excel = FALSE /\ export_filename = <<>>

\* the input filename of the runs that do not vary it
T_InCsv == <<"i", "n">> \o DotCsv

\* the state when apply_names, called with one of the given keyword arguments,
\* has read its input file and its core list
InitRenamerWith(tables, lists, arguments) ==
    /\ rpc = "resolve"
    /\ kwargs \in arguments
    /\ mscl_data \in tables
    /\ core_rows \in lists
    /\ section_column = None /\ section_depth_column = None
    /\ section_list = <<>> /\ sectionDict = <<>>
    /\ matched_data = <<>> /\ unmatched_data = <<>>
    /\ named_set = {} /\ unused_report = {}
    /\ outputs = <<>>
    /\ rstatus = "running"
    /\ input_file = T_InCsv /\ matched_filename = <<>> /\ unmatched_filename = <<>>
    /\ AggregatorIdle

\* the same without a column option
InitRenamer(tables, lists) ==
    InitRenamerWith(tables, lists,
                    {[section_column |-> None, depth_column |-> None,
                      output_filename |-> <<>>]})

----------------------------------------------------------------------------
(* The renamer's inputs                                                    *)

T_MS1 == <<"M", "S", "1">>

T_cm == <<"c", "m">>

T_SI == <<"S", "I">>

T_1 == <<"1">>

T_2 == <<"2">>

T_3 == <<"3">>

T_5 == <<"5">>

T_10 == <<"1", "0">>

T_7 == <<"7">>

CoreNames == <<<<"A">>, <<"B">>, <<"C">>, <<"D">>>>

\* the header row and the units row of a Geotek export
HeaderRows == <<<<T_SECT_NUM, T_SECT_DEPTH, T_MS1>>, <<<<>>, T_cm, T_SI>>>>

\* the tables of one to n data rows over the given section numbers and depths
Tables(n, sections, depths) ==
    UNION {{HeaderRows \o [i \in 1..k |-> <<f[i][1], f[i][2], T_7>>] :
               f \in [1..k -> sections \X depths]} : k \in 1..n}

\* the core lists of one to n entries over the given numbers, named by position
CoreLists(n, numbers) ==
    UNION {{[i \in 1..k |-> <<f[i], CoreNames[i]>>] : f \in [1..k -> numbers]} : k \in 1..n}

MaxCoreEntries == 3

InitCoreKeys ==
    InitRenamer(Tables(1, {T_1, T_2}, {T_5}), CoreLists(MaxCoreEntries, {T_1, T_2, T_3}))

SpecCoreKeys == InitCoreKeys /\ [][NextRenamer]_vars

MaxRows == 4

InitRowKeys ==
    InitRenamer(Tables(MaxRows, {T_1, T_2, T_10}, {T_5, T_10}),
                {<<<<T_1, CoreNames[1]>>, <<T_2, CoreNames[2]>>>>})

SpecRowKeys == InitRowKeys /\ [][NextRenamer]_vars

MaxNamed == 2

MaxDataRows == 3

InitRenamerRun ==
    InitRenamer(Tables(MaxDataRows, {T_1, T_2}, {T_5, T_10}), CoreLists(MaxNamed, {T_1, T_2}))

SpecRenamer == InitRenamerRun /\ [][NextRenamer]_vars

----------------------------------------------------------------------------
(* Claims about the renamer                                                *)

Reported == rpc = "done" /\ rstatus = "ok"

\* the names of the core list
ListedNames == {core_rows[i][2] : i \in 1..Len(core_rows)}

\* the names the join wrote into a data row
AssignedNames == {At(matched_data[i], section_column) : i \in 1..Len(matched_data)}

\* C8: when the renamer has reported, the names it lists as unused are exactly
\* the names of the core list that the join assigned to no data row, a name
\* assigned only to the first or the second matched row being a used one.
C8_UnusedReportExact ==
    Reported => unused_report = ListedNames \ AssignedNames

SectionsKeyed == rpc \in {"keys", "join", "export", "report", "done"} /\ rstatus # "crash"

CoreNumber(i) == ParseInt(core_rows[i][1]).val

\* the entries up to i whose number does not exceed the one before them
NonIncreasing(i) == {j \in 2..i : CoreNumber(j) <= CoreNumber(j - 1)}

CoreNumbersAre(nums) ==
    Len(core_rows) = Len(nums) /\ \A i \in 1..Len(nums) : CoreNumber(i) = nums[i]

KeysOfSectionList == [i \in 1..Len(section_list) |-> section_list[i].key]

\* C9: once the core list is keyed, entry i has the key
\* "{segment}_{number}" where the segment is 1 plus the count of entries up to
\* i whose number is less than or equal to the number before them; the list
\* [(1,A),(2,B),(1,C)] gets the keys 1_1, 1_2, 2_1.
C9_CoreListKeys ==
    SectionsKeyed =>
        /\ Len(section_list) = Len(core_rows)
        /\ \A i \in 1..Len(core_rows) :
              section_list[i].key =
                  IntStr(1 + Cardinality(NonIncreasing(i))) \o <<"_">> \o IntStr(CoreNumber(i))
        /\ CoreNumbersAre(<<1, 2, 1>>) =>
              KeysOfSectionList = <<<<"1", "_", "1">>, <<"1", "_", "2">>, <<"2", "_", "1">>>>

C9_Witness ==
    /\ rpc = "done" /\ rstatus = "ok"
    /\ CoreNumbersAre(<<1, 2, 1>>)
    /\ KeysOfSectionList = <<<<"1", "_", "1">>, <<"1", "_", "2">>, <<"2", "_", "1">>>>

\* the state between the keying of the rows and the join
RowsKeyed == rpc = "join"

\* data row r (from 1) of the input
DataRow(r) == mscl_data[start_row + r]

DataRowCount == Len(mscl_data) - start_row

RowNumber(r) == ParseInt(At(DataRow(r), section_column)).val

RowDepth(r) == ParseFloat(At(DataRow(r), section_depth_column))

\* the data rows up to r whose section number is below the previous row's, or
\* equal to it with a smaller depth
Restarts(r) ==
    {q \in 2..r : \/ RowNumber(q) < RowNumber(q - 1)
                  \/ RowNumber(q) = RowNumber(q - 1) /\ FloatLess(RowDepth(q), RowDepth(q - 1))}

RowNumbersAre(nums) ==
    DataRowCount = Len(nums) /\ \A r \in 1..Len(nums) : RowNumber(r) = nums[r]

EqualDepths == \A r \in 1..DataRowCount : FloatEq(RowDepth(r), RowDepth(1))

KeysOfRows == [r \in 1..DataRowCount |-> Last(DataRow(r))]

\* C10: once the data rows are keyed, row r has the key "{segment}_{number}"
\* where the segment is 1 plus the count of rows up to r whose section number
\* is smaller than the previous row's, or equal with a smaller depth, and the
\* number is the row's section cell; the section numbers [1,1,2,1] at one
\* depth get the keys 1_1, 1_1, 1_2, 2_1.
C10_DataRowKeys ==
    RowsKeyed =>
        /\ \A r \in 1..DataRowCount :
              Last(DataRow(r)) =
                  IntStr(1 + Cardinality(Restarts(r))) \o <<"_">> \o At(DataRow(r), section_column)
        /\ (RowNumbersAre(<<1, 1, 2, 1>>) /\ EqualDepths) =>
              KeysOfRows = <<<<"1", "_", "1">>, <<"1", "_", "1">>,
                             <<"1", "_", "2">>, <<"2", "_", "1">>>>

C10_Witness ==
    /\ RowsKeyed
    /\ RowNumbersAre(<<1, 1, 2, 1>>) /\ EqualDepths
    /\ KeysOfRows = <<<<"1", "_", "1">>, <<"1", "_", "1">>, <<"1", "_", "2">>, <<"2", "_", "1">>>>

----------------------------------------------------------------------------
(* Claims about the renamer's join                                         *)

\* the positions, among the keyed data rows, of the rows whose key is mapped
MappedRows == {i \in 1..DataRowCount : Last(DataRow(i)) \in DOMAIN sectionDict}

UnmappedRows == (1..DataRowCount) \ MappedRows

\* the rank of position i within the set of positions S
PlaceIn(S, i) == Cardinality({j \in S : j <= i})

\* the row out is the keyed row in with the section number replaced by the
\* mapped name, the key removed and every other field as it was
RenamedFrom(out, in) ==
    /\ Len(out) = Len(in) - 1
    /\ At(out, section_column) = sectionDict[Last(in)]
    /\ \A k \in 1..Len(out) : k # section_column + 1 => out[k] = in[k]

\* what the join step leaves, given the keyed rows it started from
JoinSplitsRows ==
    /\ Len(matched_data') = Cardinality(MappedRows)
    /\ Len(unmatched_data') = Cardinality(UnmappedRows)
    /\ Len(matched_data') + Len(unmatched_data') = DataRowCount
    /\ \A i \in MappedRows : RenamedFrom(matched_data'[PlaceIn(MappedRows, i)], DataRow(i))
    /\ \A i \in UnmappedRows : unmatched_data'[PlaceIn(UnmappedRows, i)] = DataRow(i)

FileRows(name) ==
    LET found == {i \in 1..Len(outputs) : outputs[i].file = name}
    IN IF found = {} THEN <<>> ELSE SubSeq(outputs[CHOOSE i \in found : TRUE].rows, start_row + 1,
                                           Len(outputs[CHOOSE i \in found : TRUE].rows))

\* C11: the join sends every keyed data row to exactly one of the two lists, in
\* input order: a row whose key is mapped goes to the matched list with its
\* section number replaced by the mapped name, its key removed and its other
\* fields unchanged, any other row goes to the unmatched list unchanged with
\* its key; the two counts add up to the number of data rows, and the export
\* writes the rows of the two lists to the two outputs.
C11_JoinPartitionsRows ==
    [][/\ rpc = "join" => JoinSplitsRows
       /\ rpc = "export" => /\ FileRows("matched")' = matched_data
                            /\ FileRows("unmatched")' = unmatched_data]_vars

C11_Witness ==
    /\ rpc = "done" /\ rstatus = "ok"
    /\ Len(matched_data) = 2 /\ Len(unmatched_data) = 1
    /\ Len(FileRows("matched")) = 2 /\ Len(FileRows("unmatched")) = 1
    /\ Len(unmatched_data[1]) = Len(matched_data[1]) + 1

----------------------------------------------------------------------------
(* Column resolution                                                       *)

ColumnCount == 3

\* the names a header cell is drawn from
HeaderNames == {T_SECT_NUM, T_Section, T_SectionID, T_Section_Depth, T_SECT_DEPTH}

\* a table of two data rows whose every cell reads as a number
NumericTable(header) ==
    <<header, [k \in 1..ColumnCount |-> <<>>],
      [k \in 1..ColumnCount |-> IntStr(k)], [k \in 1..ColumnCount |-> IntStr(k + 1)]>>

\* -s and -d: absent, or the index of a column
ColumnOptions == {None} \cup (0..(ColumnCount - 1))

InitColumns ==
    InitRenamerWith({NumericTable(h) : h \in [1..ColumnCount -> HeaderNames]},
                    {<<<<T_1, CoreNames[1]>>, <<T_2, CoreNames[2]>>>>},
                    [section_column : ColumnOptions, depth_column : ColumnOptions,
                     output_filename : {<<>>}])

SpecColumns == InitColumns /\ [][NextRenamer]_vars

Header == At(mscl_data, header_row)

\* the spellings of the list that the header has
Present(spellings) == {k \in 1..Len(spellings) : spellings[k] \in Range(Header)}

\* the column a header search gives: the leftmost cell holding the first
\* spelling present
Searched(spellings) ==
    LET first == CHOOSE k \in Present(spellings) : \A j \in Present(spellings) : k <= j
    IN (CHOOSE c \in 1..Len(Header) :
           Header[c] = spellings[first] /\ \A b \in 1..(c - 1) : Header[b] # spellings[first]) - 1

Resolvable(option, spellings) == option >= 0 \/ Present(spellings) # {}

\* the column the option and the header call for
Called(option, spellings) == IF option >= 0 THEN option ELSE Searched(spellings)

BothResolvable ==
    /\ Resolvable(kwargs.section_column, SectionSpellings)
    /\ Resolvable(kwargs.depth_column, DepthSpellings)

\* C12: once the columns are resolved, each of the two is the index given by
\* its option when one is given (0 included), otherwise the position of the
\* first spelling of its list present in the header; when one of the two
\* resolves by neither the run has ended fatally and has written no file.
C12_ColumnResolution ==
    rpc # "resolve" =>
        IF BothResolvable
        THEN /\ rstatus # "fatal"
             /\ section_column = Called(kwargs.section_column, SectionSpellings)
             /\ section_depth_column = Called(kwargs.depth_column, DepthSpellings)
        ELSE rstatus = "fatal" /\ rpc = "done" /\ outputs = <<>>

----------------------------------------------------------------------------
(* XRF: export, whole or split by SiteHole                                 *)

T_Dash == <<"-">>

\* isnull(): a missing cell of a row is a column outside the row's domain
IsNull(row, c) == c \notin DOMAIN row

\* the tokens of the row's SectionID, none for a missing one
IdTokens(row) == IF IsNull(row, "SectionID") THEN <<>> ELSE Split(row["SectionID"], T_Dash)

\* output["SectionID"].str.split("-", expand=True)[2] for one row
Shfe(row) ==
    IF Len(IdTokens(row)) >= 3 THEN [null |-> FALSE, hole |-> IdTokens(row)[3]]
    ELSE [null |-> TRUE, hole |-> <<>>]

\* Series.unique(): the values in order of first appearance
Unique(s) ==
    LET firsts == {i \in 1..Len(s) : \A j \in 1..(i - 1) : s[j] # s[i]}
    IN [k \in 1..Cardinality(firsts) |->
           s[CHOOSE i \in firsts : Cardinality({j \in firsts : j < i}) = k - 1]]

Holes(rows) == Unique([i \in 1..Len(rows) |-> Shfe(rows[i])])

\* the test of the split had it found the column everywhere
AlwaysInColumns(cols) == TRUE

\* "SectionID" in df.columns.values.tolist(), df being the last sheet read
SectionIdInColumns(cols) == "SectionID" \in Range(cols)

\* the columns had none been left out of a SiteHole's file
DataColumnsAll(filtered_data, order) == order

\* [c for c in column_order if not all(filtered_data[c].isnull())]
DataColumns(filtered_data, order) ==
    SelectSeq(order, LAMBDA c : \E i \in 1..Len(filtered_data) : ~IsNull(filtered_data[i], c))

\* the file of one SiteHole
HoleTable(rows, order, hole) ==
    LET filtered_data == SelectSeq(rows, LAMBDA r : Shfe(r) = hole)
        data_columns  == DataColumns(filtered_data, order)
    IN [hole   |-> hole.hole,
        header |-> data_columns,
        rows   |-> ExportTable(filtered_data, data_columns).rows]

\* after the loop: remove "filename" from the order, then one export file, or
\* one per SiteHole.  remove() raises ValueError without "filename"; the
\* expanded split has no column 2 (KeyError) when no SectionID has three
\* tokens; the file name of a missing SiteHole cannot be built (TypeError),
\* which ends the run after the files of the SiteHoles before it.
XrfExport ==
    /\ agg = "xrf" /\ pc = "merge" /\ todo = <<>>
    /\ pc' = "done"
    /\ merged_order' = column_order
    /\ IF "filename" \notin Range(column_order)
       THEN status' = "crash" /\ UNCHANGED <<column_order, exported, errors>>
       ELSE /\ column_order' = RemoveFirst(column_order, "filename")
            /\ IF ~options.sitehole
               THEN /\ exported' = Append(exported, ExportTable(combined_df, column_order'))
                    /\ status' = "ok"
                    /\ UNCHANGED errors
               ELSE IF ~SectionIdInColumns(last_cols)
               THEN /\ status' = "fatal"
                    /\ errors' = Append(errors, [kind |-> "no SectionID", folder |-> <<>>])
                    /\ UNCHANGED exported
               ELSE \E holes \in {Holes(combined_df)} :
                    LET nulls == {k \in 1..Len(holes) : holes[k].null}
                        done  == IF nulls = {} THEN Len(holes)
                                 ELSE (CHOOSE k \in nulls : \A j \in nulls : k <= j) - 1
                    IN /\ UNCHANGED errors
                       /\ IF \A k \in 1..Len(holes) : holes[k].null
                          THEN status' = "crash" /\ UNCHANGED exported
                          ELSE /\ exported' = exported \o
                                     [k \in 1..done |-> HoleTable(combined_df, column_order', holes[k])]
                               /\ status' = IF nulls = {} THEN "ok" ELSE "crash"
    /\ UNCHANGED <<agg, options, fs, todo, combined_df, reads, warnings, prev_order,
                   last_cols, accepted, renvars, namevars>>

----------------------------------------------------------------------------
(* XRF runs over bounded sheets                                            *)

MaxSheets == 2

T_HoleA1 == <<"P", "-", "L", "-", "A", "1", "-", "1">>

T_HoleA2 == <<"P", "-", "L", "-", "A", "2", "-", "1">>

\* the column lists of a sheet
SheetColumns ==
    { <<"filename", "SectionID", "Fe">>, <<"filename", "SectionID", "Ti">>,
      <<"filename", "Fe">>, <<"SectionID", "filename", "Fe", "Ti">> }

\* the SectionID cells of a sheet, one per row
SheetIds == { <<T_HoleA1>>, <<T_HoleA2>>, <<T_HoleA1, T_HoleA2>>, <<T_HoleA2, T_HoleA1>> }

\* a unit whose sheet has the given columns and one row per SectionID
Sheet(k, cols, ids) ==
    [dir   |-> <<"u">> \o IntStr(k),
     files |-> <<[name |-> <<"d">>, is_file |-> TRUE,
                  table |-> [cols |-> cols,
                             rows |-> [r \in 1..Len(ids) |->
                                         [c \in 1..Len(cols) |->
                                            IF cols[c] = "SectionID" THEN ids[r]
                                            ELSE <<"u">> \o IntStr(k) \o <<"r">> \o IntStr(r)]]]]>>]

InitXrf ==
    /\ agg = "xrf"
    /\ options \in [sitehole : BOOLEAN, filter : {FALSE}, filters : {XyzFilters}]
    /\ pc = "merge"
    /\ fs = <<>>
    /\ \E n \in 0..MaxSheets : \E cols \in [1..n -> SheetColumns] : \E ids \in [1..n -> SheetIds] :
           todo = [k \in 1..n |-> Sheet(k, cols[k], ids[k])]
    /\ column_order = <<>> /\ combined_df = <<>>
    /\ reads = {} /\ exported = <<>> /\ status = "running"
    /\ errors = <<>> /\ warnings = <<>>
    /\ prev_order = <<>> /\ last_cols = <<>> /\ accepted = <<>> /\ merged_order = <<>>
    /\ FilenameValidated
    /\ RenamerIdle

NextXrf == XrfLoadUnit \/ XrfExport

SpecXrf == InitXrf /\ [][NextXrf]_vars

----------------------------------------------------------------------------
(* Claims about the XRF split                                              *)

Split2Done == agg = "xrf" /\ pc = "done" /\ options.sitehole

T_A1 == <<"A", "1">>

T_A2 == <<"A", "2">>

\* the third token of a row's SectionID
KeyOf(row) == Split(row["SectionID"], T_Dash)[3]

AllKeyed == \A i \in 1..Len(combined_df) : "SectionID" \in DOMAIN combined_df[i]

GroupingKeys == {KeyOf(combined_df[i]) : i \in 1..Len(combined_df)}

\* the rows of the combined table whose key is h, in table order
RowsOf(h) == SelectSeq(combined_df, LAMBDA r : KeyOf(r) = h)

\* the columns of the order with a value in some row of the key h
FilledIn(h) ==
    SelectSeq(column_order, LAMBDA c : \E i \in 1..Len(RowsOf(h)) : c \in DOMAIN RowsOf(h)[i])

\* the exported table t holds the rows of the key h under the columns filled
\* in for it
IsTableOf(t, h) ==
    /\ t.hole = h
    /\ t.header = FilledIn(h)
    /\ Len(t.rows) = Len(RowsOf(h))
    /\ \A i \in 1..Len(t.rows) : \A k \in 1..Len(t.header) :
           IF t.header[k] \in DOMAIN RowsOf(h)[i]
           THEN t.rows[i][k] = RowsOf(h)[i][t.header[k]]
           ELSE t.rows[i][k] = NaN

CombinedColumns == {"filename"} \cup UNION {DOMAIN combined_df[i] : i \in 1..Len(combined_df)}

----------------------------------------------------------------------------
(* XYZ: the filter stage (filter_invalid_values)                           *)

\* pd.to_numeric(text, errors="coerce"): the number num / den, or not ok (NaN)
ToNumeric(text) ==
    IF text # <<>> /\ Head(text) = "-"
    THEN LET p == ParseFloat(Tail(text)) IN [ok |-> p.ok, num |-> 0 - p.num, den |-> p.den]
    ELSE ParseFloat(text)

\* "<" had it been operator.le
OpsLtAsLe(op, v, val) ==
    CASE op = ">"  -> FloatLess(val, v)
      [] op = "<"  -> ~FloatLess(val, v)
      [] op = ">=" -> ~FloatLess(v, val)
      [] op = "<=" -> ~FloatLess(val, v)
      [] op = "="  -> FloatEq(v, val)

\* ops[op](v, val)
Ops(op, v, val) ==
    CASE op = ">"  -> FloatLess(val, v)
      [] op = "<"  -> FloatLess(v, val)
      [] op = ">=" -> ~FloatLess(v, val)
      [] op = "<=" -> ~FloatLess(val, v)
      [] op = "="  -> FloatEq(v, val)

\* one rule applied to one row: the cell becomes its number, or is missing when
\* it does not read as one or when the comparison holds
FilterRow(row, col_name, op, val) ==
    LET n    == IF IsNull(row, col_name) THEN [ok |-> FALSE, num |-> 0, den |-> 1]
                ELSE ToNumeric(row[col_name])
        keep == n.ok /\ ~Ops(op, n, val)
    IN [c \in (DOMAIN row \ {col_name}) \cup (IF keep THEN {col_name} ELSE {}) |->
           IF c = col_name THEN [num |-> n.num, den |-> n.den] ELSE row[c]]

\* the frame after the rules, one after the other; the rules of a run name
\* distinct columns
RECURSIVE FilterInvalidValues(_, _)
FilterInvalidValues(rows, filters) ==
    IF filters = <<>> THEN rows
    ELSE FilterInvalidValues(
             [i \in 1..Len(rows) |->
                 FilterRow(rows[i], Head(filters)[1], Head(filters)[2], Head(filters)[3])],
             Tail(filters))

\* dataframe[col_name] raises KeyError for a column no row of the frame has
FilterColumnsPresent(rows, filters) ==
    \A k \in 1..Len(filters) : \E i \in 1..Len(rows) : ~IsNull(rows[i], filters[k][1])

\* if filter: combined_df = filter_invalid_values(combined_df, filters)
XyzFilter ==
    /\ agg = "xyz" /\ pc = "merge" /\ todo = <<>> /\ options.filter
    /\ IF FilterColumnsPresent(combined_df, options.filters)
       THEN /\ combined_df' = FilterInvalidValues(combined_df, options.filters)
            /\ pc' = "clean"
            /\ UNCHANGED status
       ELSE /\ pc' = "done" /\ status' = "crash"
            /\ UNCHANGED combined_df
    /\ UNCHANGED <<agg, options, fs, todo, column_order, reads, exported, errors, warnings,
                   prev_order, last_cols, accepted, merged_order, renvars, namevars>>

----------------------------------------------------------------------------
(* The filter stage over bounded columns and rules                         *)

MaxFilterRows == 3

T_m60 == <<"-", "6", "0">>

T_m50 == <<"-", "5", "0">>

T_m10 == <<"-", "1", "0">>

T_x == <<"x">>

\* the cells of the filtered column: numbers, a text, an empty field
FilterCells == {T_m60, T_m50, T_m10, T_5, T_x, <<>>}

Number(n) == [num |-> n, den |-> 1]

\* one rule on the magnetic susceptibility
FilterRules ==
    {<< <<"Magnetic Susceptibility", op, Number(t)>> >> :
        op \in {">", "<", ">=", "<=", "="}, t \in {0 - 50, 5}}

InitFilter ==
    /\ agg = "xyz"
    /\ options \in [sitehole : {FALSE}, filter : {TRUE}, filters : FilterRules]
    /\ pc = "merge"
    /\ fs = <<>> /\ todo = <<>>
    /\ column_order = <<"Section", "Magnetic Susceptibility">>
    /\ \E n \in 1..MaxFilterRows : \E cells \in [1..n -> FilterCells] :
           combined_df = [i \in 1..n |->
                            [c \in {"Section", "Magnetic Susceptibility"} |->
                                IF c = "Section" THEN "1" ELSE cells[i]]]
    /\ reads = {} /\ exported = <<>> /\ status = "running"
    /\ errors = <<>> /\ warnings = <<>>
    /\ prev_order = <<>> /\ last_cols = <<>> /\ accepted = <<>> /\ merged_order = <<>>
    /\ FilenameValidated
    /\ RenamerIdle

NextFilter == XyzFilter \/ CleanHeaders \/ Export

SpecFilter == InitFilter /\ [][NextFilter]_vars

----------------------------------------------------------------------------
(* Claims about the filter stage                                           *)

Rule == options.filters[1]

\* the comparison "value op threshold" on numbers v and t
Satisfies(v, op, t) ==
    LET d == v.num * t.den - t.num * v.den
    IN \/ op = ">" /\ d > 0
       \/ op = "<" /\ d < 0
       \/ op = ">=" /\ d >= 0
       \/ op = "<=" /\ d <= 0
       \/ op = "=" /\ d = 0

\* the input cell is to be blanked: it is no number, or the rule holds of it
Blanked(row) ==
    \/ Rule[1] \notin DOMAIN row
    \/ ~ToNumeric(row[Rule[1]]).ok
    \/ Satisfies(ToNumeric(row[Rule[1]]), Rule[2], Rule[3])

\* row out is row in with the rule's cell blanked or turned into its number
FilteredFrom(out, in) ==
    /\ DOMAIN out \ {Rule[1]} = DOMAIN in \ {Rule[1]}
    /\ \A c \in DOMAIN out \ {Rule[1]} : out[c] = in[c]
    /\ Rule[1] \notin DOMAIN out <=> Blanked(in)
    /\ Rule[1] \in DOMAIN out =>
          /\ out[Rule[1]].num * ToNumeric(in[Rule[1]]).den
                = ToNumeric(in[Rule[1]]).num * out[Rule[1]].den
          /\ out[Rule[1]].den > 0

FilterRuns == agg = "xyz" /\ pc = "merge" /\ options.filter

InputCells(cells) ==
    /\ Len(combined_df) = Len(cells)
    /\ \A i \in 1..Len(cells) : combined_df[i][Rule[1]] = cells[i]

MsBelowMinus50 == Rule[2] = "<" /\ Rule[3] = Number(0 - 50)

\* C15: the filter step leaves as many rows as it found; the rule's cell of a
\* row is missing afterwards exactly when it was no number or satisfied
\* "value op threshold", and otherwise holds its number; no other cell
\* changes.  With the rule (MS, <, -50) the cells -60, -10, 5 become missing,
\* -10, 5 and a cell -50 is kept.
C15_FilterMasksValues ==
    [][(FilterRuns /\ pc' = "clean") =>
          /\ Len(combined_df') = Len(combined_df)
          /\ \A i \in 1..Len(combined_df) : FilteredFrom(combined_df'[i], combined_df[i])
          /\ (MsBelowMinus50 /\ InputCells(<<T_m60, T_m10, T_5>>)) =>
                /\ Rule[1] \notin DOMAIN combined_df'[1]
                /\ combined_df'[2][Rule[1]] = Number(0 - 10)
                /\ combined_df'[3][Rule[1]] = Number(5)
          /\ (MsBelowMinus50 /\ InputCells(<<T_m50>>)) =>
                combined_df'[1][Rule[1]] = Number(0 - 50)]_vars

\* the filtered frame of the example: missing, -10, 5
C15_Witness ==
    /\ agg = "xyz" /\ pc = "clean" /\ MsBelowMinus50
    /\ Len(combined_df) = 3
    /\ Rule[1] \notin DOMAIN combined_df[1]
    /\ Rule[1] \in DOMAIN combined_df[2] /\ combined_df[2][Rule[1]] = Number(0 - 10)
    /\ Rule[1] \in DOMAIN combined_df[3] /\ combined_df[3][Rule[1]] = Number(5)

----------------------------------------------------------------------------
(* XRF: discovery (process_core_id, generate_file_list)                    *)

T_Space == <<" ">>

T__xr == <<"_", "x", "r">>

\* the tuple of a CoreID's sortable parts; IndexError or ValueError (ok FALSE)
\* for a name without the parts or with a part that is no number
ProcessCoreId(core_id) ==
    LET parts == Split(Split(core_id, T_Space)[1], T_Dash)
        fine  == /\ Len(parts) >= 4
                 /\ parts[3] # <<>> /\ ParseInt(DropLast(parts[3])).ok
                 /\ parts[4] # <<>> /\ ParseInt(DropLast(parts[4])).ok
                 /\ ParseInt(Last(parts)).ok
    IN IF ~fine THEN [ok |-> FALSE]
       ELSE [ok      |-> TRUE,
             project |-> parts[1],
             lake    |-> parts[2],
             site    |-> ParseInt(DropLast(parts[3])).val,
             hole    |-> <<Last(parts[3])>>,
             core    |-> ParseInt(DropLast(parts[4])).val,
             tool    |-> <<Last(parts[4])>>,
             section |-> ParseInt(Last(parts)).val]

\* the order of the tuples had the site been compared as text
CoreIdLessSiteAsText(a, b) ==
    \/ StrLess(a.project, b.project)
    \/ /\ a.project = b.project
       /\ \/ StrLess(a.lake, b.lake)
          \/ /\ a.lake = b.lake
             /\ \/ StrLess(IntStr(a.site), IntStr(b.site))
                \/ /\ a.site = b.site
                   /\ \/ StrLess(a.hole, b.hole)
                      \/ /\ a.hole = b.hole
                         /\ \/ a.core < b.core
                            \/ /\ a.core = b.core
                               /\ \/ StrLess(a.tool, b.tool)
                                  \/ a.tool = b.tool /\ a.section < b.section

\* tuple < tuple: the first differing component decides
CoreIdLess(a, b) ==
    \/ StrLess(a.project, b.project)
    \/ /\ a.project = b.project
       /\ \/ StrLess(a.lake, b.lake)
          \/ /\ a.lake = b.lake
             /\ \/ a.site < b.site
                \/ /\ a.site = b.site
                   /\ \/ StrLess(a.hole, b.hole)
                      \/ /\ a.hole = b.hole
                         /\ \/ a.core < b.core
                            \/ /\ a.core = b.core
                               /\ \/ StrLess(a.tool, b.tool)
                                  \/ a.tool = b.tool /\ a.section < b.section

XrfDirFilter(entry) ==
    /\ entry.is_dir
    /\ ~StartsWith(entry.name, <<".">>)
    /\ ~Contains(T__xr, Lower(entry.name))

XrfFileFilter(entry) ==
    /\ ~StartsWith(entry.name, <<".">>)
    /\ entry.is_file
    /\ Suffix(entry.name) = DotXlsx

XrfSortDirs(dir_list) ==
    LET keys == [i \in 1..Len(dir_list) |-> ProcessCoreId(dir_list[i].name)]
    IN StableSort(dir_list, [i \in 1..Len(dir_list) |->
                               [j \in 1..Len(dir_list) |-> CoreIdLess(keys[i], keys[j])]])

\* the XRF generate_file_list: the sheets in CoreID order, exit(1) at the
\* first folder without exactly one .xlsx file
XrfGenerateFileList(listing) ==
    LET dir_list == SelectSeq(listing, XrfDirFilter)
    IN IF \E i \in 1..Len(dir_list) : ~ProcessCoreId(dir_list[i].name).ok
       THEN [outcome |-> "ValueError", file_list |-> <<>>, folder |-> <<>>, found |-> 0]
       ELSE LET sorted == XrfSortDirs(dir_list)
                lists  == [i \in 1..Len(sorted) |-> SelectSeq(sorted[i].files, XrfFileFilter)]
                bad    == {i \in 1..Len(sorted) : Len(lists[i]) # 1}
            IN IF bad # {}
               THEN LET i == CHOOSE k \in bad : \A j \in bad : k <= j
                    IN [outcome |-> "exit", file_list |-> <<>>,
                        folder |-> sorted[i].name, found |-> Len(lists[i])]
               ELSE [outcome |-> "ok",
                     file_list |-> [i \in 1..Len(sorted) |->
                                      [dir |-> sorted[i].name, files |-> lists[i]]],
                     folder |-> <<>>, found |-> 0]

\* aggregate_xrf_data up to the loop
XrfDiscover ==
    /\ agg = "xrf" /\ pc = "discover"
    /\ \E r \in {XrfGenerateFileList(fs)} :
          /\ todo' = r.file_list
          /\ accepted' = r.file_list
          /\ pc' = IF r.outcome = "ok" THEN "merge" ELSE "done"
          /\ status' = CASE r.outcome = "ok" -> "running"
                         [] r.outcome = "exit" -> "fatal"
                         [] OTHER -> "crash"
          /\ errors' = IF r.outcome = "exit"
                       THEN Append(errors, [kind |-> IntStr(r.found), folder |-> r.folder])
                       ELSE errors
    /\ UNCHANGED <<agg, options, fs, column_order, combined_df, reads, exported, warnings,
                   prev_order, last_cols, merged_order, renvars, namevars>>

----------------------------------------------------------------------------
(* XYZ: discovery (generate_file_list)                                     *)

T_xyz == <<"x", "y", "z">>

T__part == <<"_", "p", "a", "r", "t">>

\* The list comprehension of lines 44-51 has lost its "if": the expression
\* after "in" is "p and '_part' in entry.name.lower() and ...", evaluated once,
\* outside the loop.  p, an iterator object, is true, so entry is read before
\* any loop variable exists: NameError, whatever the directory holds.
XyzDirList(listing) == [ok |-> FALSE, list |-> <<>>]

\* key=lambda d: float(d.name.lower().split("_part")[-1])
XyzDirKey(d) == ParseFloat(SplitLast(Lower(d.name), T__part))

XyzFileFilter(entry) ==
    /\ Contains(T_xyz, Lower(entry.name))
    /\ entry.is_file
    /\ ~StartsWith(entry.name, <<".">>)
    /\ Suffix(entry.name) = DotCsv

\* lines 54-77 for a directory list: sorted by part; a folder with several
\* csv files is fatal, one without is reported and left out
XyzCollect(dir_list) ==
    IF \E i \in 1..Len(dir_list) : ~XyzDirKey(dir_list[i]).ok
    THEN [outcome |-> "ValueError", file_list |-> <<>>, folder |-> <<>>, notes |-> <<>>]
    ELSE LET keys   == [i \in 1..Len(dir_list) |-> XyzDirKey(dir_list[i])]
             sorted == StableSort(dir_list, [i \in 1..Len(dir_list) |->
                                     [j \in 1..Len(dir_list) |-> FloatLess(keys[i], keys[j])]])
             lists  == [i \in 1..Len(sorted) |-> SelectSeq(sorted[i].files, XyzFileFilter)]
             many   == {i \in 1..Len(sorted) : Len(lists[i]) > 1}
             upto   == IF many = {} THEN Len(sorted)
                       ELSE (CHOOSE k \in many : \A j \in many : k <= j) - 1
             empty  == SelectSeq([i \in 1..upto |-> sorted[i]],
                                 LAMBDA d : SelectSeq(d.files, XyzFileFilter) = <<>>)
             full   == SelectSeq([i \in 1..upto |-> sorted[i]],
                                 LAMBDA d : SelectSeq(d.files, XyzFileFilter) # <<>>)
         IN [outcome   |-> IF many = {} THEN "ok" ELSE "exit",
             file_list |-> IF many = {}
                           THEN [i \in 1..Len(full) |->
                                   [dir |-> full[i].name,
                                    files |-> SelectSeq(full[i].files, XyzFileFilter)]]
                           ELSE <<>>,
             folder    |-> IF many = {} THEN <<>> ELSE sorted[upto + 1].name,
             notes     |-> [i \in 1..Len(empty) |-> [kind |-> "no csv", header |-> empty[i].name]]]

XyzGenerateFileList(listing) ==
    LET dirs == XyzDirList(listing)
    IN IF ~dirs.ok
       THEN [outcome |-> "NameError", file_list |-> <<>>, folder |-> <<>>, notes |-> <<>>]
       ELSE XyzCollect(dirs.list)

\* aggregate_xyz_data up to the loop
XyzDiscover ==
    /\ agg = "xyz" /\ pc = "discover"
    /\ \E r \in {XyzGenerateFileList(fs)} :
          /\ todo' = r.file_list
          /\ accepted' = r.file_list
          /\ warnings' = warnings \o r.notes
          /\ pc' = IF r.outcome = "ok" THEN "merge" ELSE "done"
          /\ status' = CASE r.outcome = "ok" -> "running"
                         [] r.outcome = "exit" -> "fatal"
                         [] OTHER -> "crash"
          /\ errors' = IF r.outcome = "exit"
                       THEN Append(errors, [kind |-> "more", folder |-> r.folder])
                       ELSE errors
    /\ UNCHANGED <<agg, options, fs, column_order, combined_df, reads, exported,
                   prev_order, last_cols, merged_order, renvars, namevars>>

----------------------------------------------------------------------------
(* Discovery over a bounded input directory, for each aggregator           *)

MaxEntries == 3

FolderP1dot5 == <<"m", "s", "c", "l", "-", "p", "1", ".", "5">>

FolderP10 == <<"m", "s", "c", "l", "-", "p", "1", "0">>

XrfSite2 == <<"P", "-", "L", "-", "2", "A", "-", "1", "L", "-", "1">>

XrfSite2Section2 == <<"P", "-", "L", "-", "2", "A", "-", "1", "L", "-", "2">>

XrfSite10 == <<"P", "-", "L", "-", "1", "0", "A", "-", "1", "L", "-", "1">>

XrfHidden == <<".", "P", "-", "L", "-", "1", "A", "-", "1", "L", "-", "1">>

XyzPart1 == <<"x", "y", "z", "_", "p", "a", "r", "t", "1">>

XyzPart2 == <<"x", "y", "z", "_", "p", "a", "r", "t", "2">>

XyzPart10 == <<"x", "y", "z", "_", "p", "a", "r", "t", "1", "0">>

FileXlsx == <<"d", ".", "x", "l", "s", "x">>

FileXyzCsv == <<"x", "y", "z", ".", "c", "s", "v">>

FileXyzCsvB == <<"x", "y", "z", "b", ".", "c", "s", "v">>

\* the folder names of an input directory of the aggregator
DiscoveryNames(a) ==
    CASE a = "mscl" -> {FolderP1, FolderP1dot5, FolderP2, FolderP10}
      [] a = "xrf"  -> {XrfSite2, XrfSite2Section2, XrfSite10, XrfHidden}
      [] a = "xyz"  -> {XyzPart1, XyzPart2, XyzPart10}

\* the file lists of a folder
DiscoveryFiles(a) ==
    CASE a = "mscl" -> {<<FileAOut, FileARaw>>, <<FileAOut>>}
      [] a = "xrf"  -> {<<FileXlsx>>, <<>>}
      [] a = "xyz"  -> {<<FileXyzCsv>>, <<>>, <<FileXyzCsv, FileXyzCsvB>>}

InitDiscovery ==
    /\ agg \in {"mscl", "xrf", "xyz"}
    /\ options = NoOptions
    /\ pc = "discover"
    /\ \E n \in 0..MaxEntries : \E names \in [1..n -> DiscoveryNames(agg)] :
       \E configs \in [1..n -> DiscoveryFiles(agg)] :
           /\ NoDup(names)
           /\ fs = [i \in 1..n |-> Folder(names[i], configs[i])]
    /\ todo = <<>> /\ column_order = <<>> /\ combined_df = <<>>
    /\ reads = {} /\ exported = <<>> /\ status = "running"
    /\ errors = <<>> /\ warnings = <<>>
    /\ prev_order = <<>> /\ last_cols = <<>> /\ accepted = <<>> /\ merged_order = <<>>
    /\ FilenameValidated
    /\ RenamerIdle

NextDiscovery == MsclDiscover \/ XrfDiscover \/ XyzDiscover

SpecDiscovery == InitDiscovery /\ [][NextDiscovery]_vars

----------------------------------------------------------------------------
(* Claims about discovery                                                  *)

Discovered == pc # "discover"

\* the folders of the input directory that are not hidden
Visible == {i \in 1..Len(fs) : Head(fs[i].name) # "."}

\* every folder holds the files its aggregator asks for
WellFormed == \A i \in Visible : Len(fs[i].files) = (IF agg = "mscl" THEN 2 ELSE 1)

AcceptedNames == [k \in 1..Len(accepted) |-> accepted[k].dir]

\* folder a is returned before folder b when both are returned
Before(a, b) ==
    \A i, j \in 1..Len(accepted) : (AcceptedNames[i] = a /\ AcceptedNames[j] = b) => i < j

\* C16: from a directory whose folders each hold their files, discovery
\* returns every folder, ordered by number and not by text: MSCL and XYZ part 1
\* before part 1.5 before part 2 before part 10, XRF site 2 before site 10 and,
\* within a site, section 1 before section 2.
C16_NumericOrdering ==
    (Discovered /\ WellFormed) =>
        /\ status = "running"
        /\ Range(AcceptedNames) = {fs[i].name : i \in Visible}
        /\ Before(FolderP1, FolderP1dot5) /\ Before(FolderP1dot5, FolderP2)
        /\ Before(FolderP2, FolderP10)
        /\ Before(XyzPart1, XyzPart2) /\ Before(XyzPart2, XyzPart10)
        /\ Before(XrfSite2, XrfSite2Section2) /\ Before(XrfSite2Section2, XrfSite10)

\* the folders with n files
WithFiles(n) == {fs[i].name : i \in {j \in Visible : Len(fs[j].files) = n}}

\* C17: XYZ discovery ends fatally, naming the folder, when a folder holds more
\* than one csv file; otherwise it returns the folders that hold one, in part
\* order, and warns of each folder that holds none.
C17_XyzMissingFileSkipped ==
    (agg = "xyz" /\ Discovered) =>
        IF WithFiles(2) # {}
        THEN /\ status = "fatal"
             /\ \E k \in 1..Len(errors) : errors[k].folder \in WithFiles(2)
        ELSE /\ status = "running"
             /\ Range(AcceptedNames) = WithFiles(1)
             /\ {warnings[k].header : k \in 1..Len(warnings)} = WithFiles(0)
             /\ Before(XyzPart1, XyzPart2) /\ Before(XyzPart2, XyzPart10)

----------------------------------------------------------------------------
(* Claims about the registry step and the export (SpecRegistry)            *)

\* the merged ColumnOrder without the configured drop columns
KeptColumns == SelectSeq(merged_order, LAMBDA c : c \notin Range(DropHeaders(agg)))

\* the readable name of a machine name: the registry's, or the name itself
Readable(c) == IF c \in Registered(agg) THEN RegEntry(agg, c)[2] ELSE c

\* the unit of a machine name: the registry's, or none
UnitOf(c) == IF c \in Registered(agg) THEN RegEntry(agg, c)[3] ELSE ""

\* C18: after the registry step the column order holds no drop column and no
\* name twice, and is the merged ColumnOrder without its drop columns, each
\* column under its readable name, in the same order.
C18_FinalColumnOrder ==
    pc # "merge" =>
        /\ status # "crash"
        /\ \A k \in 1..Len(column_order) : column_order[k] \notin Range(DropHeaders(agg))
        /\ Len(column_order) = Len(KeptColumns)
        /\ \A k \in 1..Len(KeptColumns) : column_order[k] = Readable(KeptColumns[k])
        /\ NoDup(column_order)

\* the registry step puts the units row before the rows it found, each row
\* keeping its cells under the renamed columns
UnitsRowPrepended ==
    /\ pc' = "export"
    /\ Len(combined_df') = Len(combined_df) + 1
    /\ \A k \in 1..Len(column_order') :
          /\ column_order'[k] \in DOMAIN combined_df'[1]
          /\ combined_df'[1][column_order'[k]] = UnitOf(KeptColumns'[k])
          /\ \A i \in 1..Len(combined_df) :
                /\ column_order'[k] \in DOMAIN combined_df'[i + 1]
                /\ combined_df'[i + 1][column_order'[k]] = combined_df[i][KeptColumns'[k]]

\* the export writes the frame, units row first, under the final columns
FrameExported ==
    /\ status' = "ok"
    /\ Len(exported') = 1
    /\ exported'[1].header = column_order
    /\ Len(exported'[1].rows) = Len(combined_df)
    /\ \A i \in 1..Len(combined_df) : \A k \in 1..Len(column_order) :
          exported'[1].rows[i][k] = combined_df[i][column_order[k]]

\* C19: the registry step prepends one units row, whose cell under each final
\* column is the column's registry unit, or "" for an unregistered column,
\* and keeps the data rows in order after it; the export then writes these
\* rows, one more than the combined rows, under the final columns.
C19_UnitsRowFirst ==
    [][/\ pc = "merge" => UnitsRowPrepended
       /\ pc = "export" => FrameExported]_vars


----------------------------------------------------------------------------
(* Row union of the merge loop (SpecMerge)                                 *)

\* the table a unit is read from: the .out file of MSCL, the only file otherwise
UnitTable(unit) == unit.files[1].table

\* the data rows a unit brings, in the order of its table: an MSCL table
\* without its units row and its all-empty rows
UnitDataRows(unit) ==
    IF agg = "mscl" THEN SelectSeq(Tail(UnitTable(unit).rows), NotAllEmpty)
    ELSE UnitTable(unit).rows

\* the columns a unit has: those of its table, and Temp for MSCL
UnitColumns(unit) ==
    Range(UnitTable(unit).cols) \cup (IF agg = "mscl" THEN {"Temp"} ELSE {})

RECURSIVE RowsToCome(_)
RowsToCome(units) ==
    IF units = <<>> THEN 0 ELSE Len(UnitDataRows(Head(units))) + RowsToCome(Tail(units))

UnitAppended ==
    LET unit == Head(todo)
        cols == UnitTable(unit).cols
        new  == UnitDataRows(unit)
        old  == Len(combined_df)
    IN /\ Len(combined_df') = old + Len(new)
       /\ SubSeq(combined_df', 1, old) = combined_df
       /\ \A r \in 1..Len(new) :
             /\ \A k \in 1..Len(cols) :
                   /\ ~IsNull(combined_df'[old + r], cols[k])
                   /\ combined_df'[old + r][cols[k]] = new[r][k]
             /\ \A c \in Range(column_order') \ UnitColumns(unit) :
                   IsNull(combined_df'[old + r], c)
       /\ Len(combined_df') + RowsToCome(todo') = Len(combined_df) + RowsToCome(todo)

----------------------------------------------------------------------------
(* Export filename validation (SpecFilename)                               *)

MaxNameTokens == 3

NameTokens == {<<"o">>, T_Dot, Tail(DotCsv), Tail(DotXlsx), Tail(DotXls)}

\* base filenames: a few tokens in a row, the last one not a dot
ExportNames ==
    {Join(t, <<>>) : t \in {u \in UNION {[1..n -> NameTokens] : n \in 1..MaxNameTokens} :
                              u[Len(u)] # T_Dot}}

InitFilename ==
    /\ agg \in {"mscl", "xrf", "xyz", "utils"}
    /\ options = NoOptions
    /\ pc = "start"
    /\ fs = <<>> /\ todo = <<>>
    /\ column_order = <<>> /\ combined_df = <<>>
    /\ reads = {} /\ exported = <<>> /\ status = "running"
    /\ errors = <<>> /\ warnings = <<>>
    /\ prev_order = <<>> /\ last_cols = <<>> /\ accepted = <<>> /\ merged_order = <<>>
    /\ out_filename \in ExportNames /\ excel \in BOOLEAN /\ export_filename = <<>>
    /\ RenamerIdle

NextFilename == Validate \/ UtilsValidate

SpecFilename == InitFilename /\ [][NextFilename]_vars

\* the extension of a filename: the text from its last dot on, when that dot
\* is neither the first nor the last character
Extension(name) ==
    IF \E i \in 2..(Len(name) - 1) : name[i] = "." /\ \A j \in (i + 1)..Len(name) : name[j] # "."
    THEN LET i == CHOOSE k \in 2..(Len(name) - 1) :
                     name[k] = "." /\ \A j \in (k + 1)..Len(name) : name[j] # "."
         IN SubSeq(name, i, Len(name))
    ELSE <<>>

\* the extensions of the requested format
Family(flag) == IF flag THEN {DotXlsx, DotXls} ELSE {DotCsv}

\* the function applied once more to its own result
ValidatedAgain ==
    IF agg = "utils" THEN UtilsValidateExportFilename(export_filename, excel)
    ELSE ValidateExportFilename(export_filename, excel).name

\* C21: once the filename is validated, its extension is of the requested
\* format's family; a filename whose extension was of that family already is
\* returned unchanged; and validating the result again changes nothing.
C21_FilenameNormalised ==
    pc # "start" =>
        /\ status # "crash"
        /\ Extension(export_filename) \in Family(excel)
        /\ (Extension(out_filename) \in Family(excel) => export_filename = out_filename)
        /\ ValidatedAgain = export_filename

----------------------------------------------------------------------------
(* The renamer's output names (SpecNaming)                                 *)

MaxPathTokens == 4

T_Slash == <<"/">>

PathTokens == {<<"d">>, T_Dot, T_Slash, T__unnamed, T_unnamed, DotCsv}

\* input filenames: a few tokens in a row, the last one neither a dot nor a slash
InputFiles ==
    {Join(t, <<>>) : t \in {u \in UNION {[1..n -> PathTokens] : n \in 1..MaxPathTokens} :
                              u[Len(u)] \notin {T_Dot, T_Slash}}}

\* apply_names called with or without -o, on a file of one data row that the
\* one-entry core list names or does not name
InitNaming ==
    /\ rpc = "resolve"
    /\ kwargs \in [section_column : {None}, depth_column : {None},
                   output_filename : {<<>>, T_OutCsv}]
    /\ mscl_data \in Tables(1, {T_1, T_2}, {T_5})
    /\ core_rows \in CoreLists(1, {T_1})
    /\ section_column = None /\ section_depth_column = None
    /\ section_list = <<>> /\ sectionDict = <<>>
    /\ matched_data = <<>> /\ unmatched_data = <<>>
    /\ named_set = {} /\ unused_report = {}
    /\ outputs = <<>>
    /\ rstatus = "running"
    /\ input_file \in InputFiles /\ matched_filename = <<>> /\ unmatched_filename = <<>>
    /\ AggregatorIdle

SpecNaming == InitNaming /\ [][NextRenamer]_vars

Exported == rpc \in {"report", "done"}

T__coreID == <<"_", "c", "o", "r", "e", "I", "D">>

T__unmatched == <<"_", "u", "n", "m", "a", "t", "c", "h", "e", "d">>

\* the last component of a path
BaseName(path) == SplitLast(path, T_Slash)

\* a path without the extension of its last component
Stem(path) == SubSeq(path, 1, Len(path) - Len(Extension(BaseName(path))))

\* the path with the text t put before the extension of its last component;
\* for a name without an extension the fixed '.csv' may follow t
WithBeforeExtension(path, t) ==
    IF Extension(BaseName(path)) = <<>>
    THEN {path \o t, path \o t \o DotCsv}
    ELSE {Stem(path) \o t \o Extension(BaseName(path))}

\* the path with the marker, with or without its underscore, taken out
MarkerStripped(path) ==
    {Replace(path, T__unnamed, <<>>), Replace(path, T_unnamed, <<>>),
     Replace(Replace(path, T__unnamed, <<>>), T_unnamed, <<>>)}

WrittenNames == {outputs[i].name : i \in 1..Len(outputs)}

\* C22: the matched file is named by the override when one is given, else by
\* the input name without its 'unnamed' marker when it has one, else by the
\* input name with '_coreID' before its extension; the unmatched file is
\* written exactly when a row is unmatched, under the input name with
\* '_unmatched' before its extension.
C22_OutputNaming ==
    Exported =>
        /\ matched_filename \in WrittenNames
        /\ IF kwargs.output_filename # <<>>
           THEN matched_filename = kwargs.output_filename
           ELSE IF Contains(T_unnamed, input_file)
                THEN /\ matched_filename \in MarkerStripped(input_file)
                     /\ ~Contains(T_unnamed, matched_filename)
                ELSE matched_filename \in WithBeforeExtension(input_file, T__coreID)
        /\ Len(outputs) = (IF unmatched_data # <<>> THEN 2 ELSE 1)
        /\ (unmatched_data # <<>> =>
               /\ outputs[2].name = unmatched_filename
               /\ unmatched_filename \in WithBeforeExtension(input_file, T__unmatched))

\* C25: without an override the matched file is not the input file
C25_InputNotOverwritten ==
    (Exported /\ kwargs.output_filename = <<>>) => matched_filename # input_file

----------------------------------------------------------------------------
(* Uniqueness of the core list keys (SpecCoreKeys)                         *)

\* C26: once the core list is keyed, no two of its entries have the same key,
\* the lookup map has one entry per core list entry, and every entry's key
\* leads to that entry's own name.
C26_KeysDistinct ==
    SectionsKeyed =>
        /\ \A i, j \in 1..Len(section_list) : i # j => section_list[i].key # section_list[j].key
        /\ Cardinality(DOMAIN sectionDict) = Len(core_rows)
        /\ \A i \in 1..Len(section_list) :
              /\ section_list[i].key \in DOMAIN sectionDict
              /\ sectionDict[section_list[i].key] = core_rows[i][2]

\* C26: a core list of three entries with the same number, keyed in three segments
C26_Witness ==
    /\ SectionsKeyed
    /\ CoreNumbersAre(<<1, 1, 1>>)
    /\ Cardinality(DOMAIN sectionDict) = 3

----------------------------------------------------------------------------
(* MSCL discovery of folders named in upper case (SpecCase)                *)

FolderUpperP2 == <<"M", "S", "C", "L", "-", "P", "2">>

\* folder names with the type tag and the separator in lower and in upper case
CaseNames == {FolderP1, FolderUpperP2, FolderP10, FolderHidden}

InitCase ==
    /\ agg = "mscl"
    /\ options = NoOptions
    /\ pc = "discover"
    /\ \E n \in 0..MaxEntries : \E names \in [1..n -> CaseNames] :
       \E configs \in [1..n -> DiscoveryFiles("mscl")] :
           /\ NoDup(names)
           /\ fs = [i \in 1..n |-> Folder(names[i], configs[i])]
    /\ todo = <<>> /\ column_order = <<>> /\ combined_df = <<>>
    /\ reads = {} /\ exported = <<>> /\ status = "running"
    /\ errors = <<>> /\ warnings = <<>>
    /\ prev_order = <<>> /\ last_cols = <<>> /\ accepted = <<>> /\ merged_order = <<>>
    /\ FilenameValidated
    /\ RenamerIdle

NextCase == MsclDiscover

SpecCase == InitCase /\ [][NextCase]_vars

\* C23: from a directory whose folders each hold their two files, MSCL
\* discovery returns every folder that is not hidden and has the type tag and
\* the separator in its name, in lower or in upper case, at the place of its
\* part number (1 before 2 before 10), and does not fail.
C23_CaseInsensitiveDiscovery ==
    (Discovered /\ WellFormed) =>
        /\ status = "running"
        /\ Range(AcceptedNames) = {fs[i].name : i \in Visible}
        /\ Before(FolderP1, FolderUpperP2) /\ Before(FolderUpperP2, FolderP10)

----------------------------------------------------------------------------
(* The SectionID test of the XRF export (SpecXrf)                          *)

\* C24: an XRF run by SiteHole whose merged sheets have, at least one of
\* them, a SectionID column does not end with the fatal error for a missing
\* SectionID, whichever sheet was read last.
C24_NoFatalWithIdentifier ==
    (agg = "xrf" /\ pc = "done" /\ options.sitehole /\ "SectionID" \in Range(merged_order))
        => status # "fatal"

====
